---- MODULE Spec2Model ----
(***************************************************************************)
(* Engine orchestration layer of chess-automation: the three UCI engine    *)
(* adapters (StockfishAsmEngine, Lc0Engine, StockfishEngine) and the       *)
(* EngineManager that owns one of them.                                    *)
(*                                                                         *)
(* Granularity.  JavaScript runs one callback at a time.  A step of the    *)
(* model is one macrotask (a caller's call, a stdout line handed to        *)
(* handleEngineMessage, a timer callback) together with the promise        *)
(* continuations it makes runnable: an await on an already settled         *)
(* promise cannot be overtaken by engine output or by a timer.             *)
(*                                                                         *)
(* Scores are kept in 1/100 pawn so that parseInt(x) / 100 stays an        *)
(* integer; the scaling preserves order.                                   *)
(*                                                                         *)
(* Fields named `from` are history: the number of the go command an        *)
(* engine line answers.  The adapters never read them.                     *)
(***************************************************************************)
EXTENDS Integers, Sequences, FiniteSets, TLC

\* ---------------------------------------------------------------- bounds
MaxSearches == 2
MaxCount == 2
MaxChan == 1
MaxInfo == 2
MaxFen == 1
MaxInits == 1
MaxRejected == 1
MaxAnalyses == 102
MaxFailed == 1
MaxCp == 30000
MaxMate == 3
ConfigMultiPV == 0

Moves == {"e2e4", "d2d4"}
Kinds == {"asm", "lc0", "wasm"}
Acks == {"uciok", "readyok"}
EngineTypes == {"stockfish-wasm", "stockfish", "lc0", "maia", "unknown"}
SearchScores == {<<"cp", 30>>}

\* ------------------------------------------------------ program constants
MateSentinel == 10000
ScoreScale == 100
HistoryCapacity == 100

VARIABLES
  kind, isMaia,            \* which adapter class; Lc0Engine.isMaia
  process,                 \* this.process / this.engine is non-null
  isReady,                 \* BaseEngine.isReady
  initPc,                  \* position of init(): new, uciok, readyok, done, failed
  waiting,                 \* waitingFor.expected / keys of messageHandlers
  hsTimers,                \* armed handshake timers, by expected line
  currentSearch,           \* this.currentSearch: 0 is null, else the search
  evaluation,              \* this.evaluation
  pvLines,                 \* Lc0Engine.pvLines
  wrapped,                 \* searches whose collecting parseInfoMessage wrapper is installed
  coll,                    \* per getCandidateMoves call: its local pvLines / candidates
  promise,                 \* the promise returned by each getBestMove
  timers,                  \* armed search timers
  nSearch,                 \* number of getBestMove calls made
  call,                    \* the outermost caller operation behind each search
  chan,                    \* engine stdout lines not yet handled
  sent,                    \* commands written to the engine, in order
  engQ, engOwes, engMultiPV, engInfo,   \* the engine process
  currentEngine,           \* EngineManager.currentEngine is non-null
  engineType,              \* EngineManager.engineType
  analysisHistory,         \* EngineManager.analysisHistory
  mgrPhase,                \* history: new, initializing, ready, failed, quit
  mgrRejected,             \* history: manager calls refused as not ready
  nInits,                  \* history: EngineManager.init calls made
  nAnalyses, nFailed, succLog,  \* history of analyzePosition calls
  reported,                \* history: variation indices handled during each search
  objs,                    \* the adapter objects an EngineManager has constructed
  currentObj,              \* which of them EngineManager.currentEngine refers to (0: null)
  poolConfig,              \* EnginePoolManager.config: pool, selection, switchEvery
  poolEngines, poolIndex,  \* EnginePoolManager.poolEngines / poolIndex
  engines,                 \* keys of EnginePoolManager.engines (the cache)
  currentEngineId,         \* EnginePoolManager.currentEngineId; currentEngine is its manager
  moveCount,               \* EnginePoolManager.moveCount
  pcalls,                  \* history: the calls made on the pool manager and their position
  selLog,                  \* history: each selection by strategy, with the pool list it read
  dualConfig,              \* DualAnalysis.config.engines: the labels, in configured order
  dualEngines,             \* keys of DualAnalysis.engines, in insertion order
  isInitialized,           \* DualAnalysis.isInitialized
  results,                 \* DualAnalysis.results, in insertion order
  dualPc, dualOp, initAt,  \* position of the running init() / analyzePosition()
  units, unitMove,         \* each analyzeWithEngine unit: its position and analysis.bestMove
  consolidated,            \* what analyzePosition returned last
  nDual,                   \* history: DualAnalysis.analyzePosition calls made
  quitCalls,               \* history: quit() calls made, each with what it did
  goOpts,                  \* the options of the last getBestMove request: time, nodes, depth (0: not given)
  goCmd,                   \* the budget part of the go command built for them
  stream,                  \* engine output written to the pipe and not yet read, letter by letter
  written,                 \* history: the non-empty lines the engine has written
  handled,                 \* history: the lines passed to handleEngineMessage
  hostExited,              \* the host program ended through its uncaughtException handler
  isPlaying,               \* ChessAutomation.isPlaying
  loops,                   \* startAutoPlay loops that have not returned yet
  gsFen,                   \* ChessAutomation.gameState.fen (0: null)
  board, ourTurn,          \* the page: the position on the board, whether it is our turn
  mmCalls,                 \* history: the makeMove calls of the loop, with their outcome
  lastIter,                \* history: how the last pass of the loop went
  poolCurrent,             \* EnginePoolManager.currentEngine: null, undefined, or the cache key of the manager it is
  disabled,                \* the identifiers of ENGINES_CONFIG with enabled: false
  draw,                    \* history: the last selectWeightedEngine draw: list, weights, sample, index returned
  early                    \* history: acknowledgments an in-process engine printed before their wait was registered

adapterVars == <<kind, isMaia, process, isReady, initPc, waiting, hsTimers,
                 currentSearch, evaluation, pvLines, wrapped, coll, promise,
                 timers, nSearch, call>>
engineVars == <<chan, sent, engQ, engOwes, engMultiPV, engInfo>>
managerVars == <<currentEngine, engineType, analysisHistory, mgrPhase,
                 mgrRejected, nInits, nAnalyses, nFailed, succLog>>
switchVars == <<objs, currentObj>>
poolVars == <<poolConfig, poolEngines, poolIndex, engines, currentEngineId,
              moveCount, pcalls, selLog>>
dualVars == <<dualConfig, dualEngines, isInitialized, results, dualPc, dualOp,
              initAt, units, unitMove, consolidated, nDual>>
autoVars == <<isPlaying, loops, gsFen, board, ourTurn, mmCalls, lastIter>>
selVars == <<poolCurrent, disabled>>
lateVars == <<draw, early>>
histRest == <<goOpts, goCmd, stream, written, handled, hostExited, autoVars, selVars,
              lateVars>>
histVars == <<quitCalls, histRest>>
extVars == <<switchVars, poolVars, dualVars, histVars>>
vars == <<adapterVars, engineVars, managerVars, reported, extVars>>

SearchIds == 1..MaxSearches
PvIdx == 1..MaxCount

\* ------------------------------------------------------------ UCI records
Cmd(c, n) == [c |-> c, n |-> n]

AckLine(a) ==
  [t |-> a, multipv |-> 0, pv |-> "none", stype |-> "none", sval |-> 0,
   move |-> "none", from |-> 0]

InfoLine(mpv, pv, tok, s) ==
  [t |-> "info", multipv |-> mpv, pv |-> pv, stype |-> tok[1], sval |-> tok[2],
   move |-> "none", from |-> s]

BestmoveLine(m, s) ==
  [t |-> "bestmove", multipv |-> 0, pv |-> "none", stype |-> "none", sval |-> 0,
   move |-> m, from |-> s]

NoEval ==
  [set |-> FALSE, multipv |-> 0, pv |-> "none", stype |-> "none", score |-> 0,
   mate |-> 0, from |-> 0]

NoPv == [has |-> FALSE, move |-> "none", from |-> 0]
EmptyPvMap == [i \in PvIdx |-> NoPv]

NoPromise ==
  [st |-> "none", move |-> "none", from |-> 0, ev |-> NoEval, cands |-> EmptyPvMap]

NoCall ==
  [op |-> "none", count |-> 0, fen |-> 0, epoch |-> 0, st |-> "none",
   list |-> <<>>, bestMove |-> "none"]

\* getBestMove(options): options.time / nodes / depth, 0 when not given (or
\* given as 0, which `||` treats alike); the go command: its unit and value.
NoOpts == [time |-> 0, nodes |-> 0, depth |-> 0]
NoGo == [unit |-> "none", value |-> 0]

\* ------------------------------------------------------- parseInfoMessage
\* info.score of a "score cp n" / "score mate n" token pair.
ParseScore(k, stype, n) ==
  IF stype = "cp" THEN n
  ELSE IF stype = "mate"
    THEN IF k = "wasm"
           THEN (IF n < 0 THEN -MateSentinel ELSE MateSentinel) * ScoreScale
           ELSE (IF n > 0 THEN MateSentinel - n ELSE -MateSentinel - n) * ScoreScale
    ELSE 0

\* The info object built by the token loop.
ParseInfoMessage(k, line) ==
  [set |-> TRUE, multipv |-> line.multipv, pv |-> line.pv, stype |-> line.stype,
   score |-> ParseScore(k, line.stype, line.sval),
   mate |-> IF line.stype = "mate" THEN line.sval ELSE 0,
   from |-> line.from]

\* if (info.multipv === 1 || !info.multipv) this.evaluation = info
UpdatesEvaluation(info) == info.multipv = 1 \/ info.multipv = 0

\* Lc0: if (info.multipv && info.pv && info.pv.length > 0) this.pvLines.set(...)
Lc0StoresPv(info) == info.multipv # 0 /\ info.pv # "none"

\* The collecting wrapper of getCandidateMoves reads this.evaluation after
\* the original parser ran, and files it under this.evaluation.multipv.
WrapperRecords(ev) == ev.set /\ ev.pv # "none" /\ ev.multipv # 0

WrapperStore(map, ev) ==
  IF WrapperRecords(ev) /\ ev.multipv \in PvIdx
    THEN [map EXCEPT ![ev.multipv] = [has |-> TRUE, move |-> ev.pv, from |-> ev.from]]
    ELSE map

\* Ascending list of the entries of a variation map with index <= upto.
RECURSIVE ListFrom(_, _, _)
ListFrom(map, i, upto) ==
  IF i > upto \/ i > MaxCount THEN <<>>
  ELSE (IF map[i].has
          THEN <<[rank |-> 0, idx |-> i, move |-> map[i].move, from |-> map[i].from]>>
          ELSE <<>>) \o ListFrom(map, i + 1, upto)


\* ------------------------------------------------- derived configuration
\* const originalMultiPV = this.config.multiPV || 1
OriginalMultiPV == IF ConfigMultiPV > 0 THEN ConfigMultiPV ELSE 1

\* Lc0Engine.getCandidateMoves: this.isMaia && !options.forceMultiPV
MaiaSinglePv == kind = "lc0" /\ isMaia

\* ------------------------------------------------------ EngineManager bits
PushHistoryNoEvict(h, a) == Append(h, a)

\* this.analysisHistory.push(analysis); if (length > 100) shift()
PushHistory(h, a) ==
  LET h1 == Append(h, a)
  IN IF Len(h1) > HistoryCapacity THEN Tail(h1) ELSE h1

ManagerNotReadyNoEngine == ~currentEngine

\* if (!this.currentEngine || !this.currentEngine.getIsReady()) throw
ManagerNotReady == ~currentEngine \/ ~isReady

RankOfZeroBased(index) == index

\* candidates.map((candidate, index) => ({ rank: index + 1, ... }))
RankOf(index) == index + 1

RankList(list) ==
  [i \in 1..Len(list) |-> [list[i] EXCEPT !.rank = RankOf(i - 1)]]

\* ---------------------------------------------------------------- Init
AdapterConstructed ==
  /\ process = FALSE /\ isReady = FALSE /\ initPc = "new"
  /\ waiting = {} /\ hsTimers = {}
  /\ currentSearch = 0 /\ evaluation = NoEval /\ pvLines = EmptyPvMap
  /\ wrapped = {} /\ coll = [s \in SearchIds |-> EmptyPvMap]
  /\ promise = [s \in SearchIds |-> NoPromise]
  /\ timers = {} /\ nSearch = 0
  /\ call = [s \in SearchIds |-> NoCall]

EngineIdle ==
  /\ chan = <<>> /\ sent = <<>> /\ engQ = <<>> /\ engOwes = <<>>
  /\ engMultiPV = 1 /\ engInfo = 0

ManagerConstructed ==
  /\ currentEngine = FALSE /\ analysisHistory = <<>>
  /\ mgrPhase = "new" /\ mgrRejected = 0 /\ nInits = 0
  /\ nAnalyses = 0 /\ nFailed = 0 /\ succLog = <<>>

\* No manager-owned adapter objects yet.
NoObjects == objs = <<>> /\ currentObj = 0

\* new EnginePoolManager(config).
PoolConstructed(cfg) ==
  /\ poolConfig = cfg
  /\ poolEngines = <<>> /\ poolIndex = 0 /\ engines = {}
  /\ currentEngineId = "null" /\ moveCount = 0
  /\ pcalls = <<>> /\ selLog = <<>>

DefaultPoolConfig == [pool |-> "stockfish", selection |-> "random", switchEvery |-> 1]

PoolIdle == PoolConstructed(DefaultPoolConfig)

\* DUAL_ANALYSIS_ENGINES, and a configuration with a third label.
DUAL_ANALYSIS_ENGINES == <<"stockfish", "maia">>
DualConfigs == {DUAL_ANALYSIS_ENGINES, <<"stockfish", "maia", "lc0">>}
DualLabels == {"stockfish", "maia", "lc0"}

NoResults == [engines |-> {}, consensus |-> "unset", divergence |-> [num |-> 0, den |-> 1],
              totalEngines |-> 0, uniqueMoves |-> 0,
              consensusStrength |-> [num |-> 0, den |-> 1]]

\* new DualAnalysis(config).
DualConstructed(cfg) ==
  /\ dualConfig = cfg
  /\ dualEngines = <<>> /\ isInitialized = FALSE /\ results = <<>>
  /\ dualPc = "idle" /\ dualOp = "none" /\ initAt = 0
  /\ units = [l \in DualLabels |-> "none"]
  /\ unitMove = [l \in DualLabels |-> "none"]
  /\ consolidated = NoResults /\ nDual = 0

DualIdle == DualConstructed(DUAL_ANALYSIS_ENGINES)

\* No calls recorded yet.
HistQuiet ==
  /\ quitCalls = <<>>
  /\ goOpts = NoOpts
  /\ goCmd = NoGo
  /\ stream = <<>>
  /\ written = <<>>
  /\ handled = <<>>
  /\ hostExited = FALSE
  /\ isPlaying = FALSE
  /\ loops = 0
  /\ gsFen = 0
  /\ board = 1
  /\ ourTurn = FALSE
  /\ mmCalls = <<>>
  /\ lastIter = "none"
  /\ poolCurrent = "null"
  /\ draw = [pool |-> <<>>, weights |-> <<>>, r2 |-> 0, idx |-> 0]
  /\ early = {}

\* The configuration as shipped: every identifier is enabled.
HistIdle == HistQuiet /\ disabled = {}

ExtIdle == NoObjects /\ PoolIdle /\ DualIdle /\ HistIdle

\* An adapter constructed directly by a caller.
Init ==
  /\ kind \in Kinds
  /\ isMaia \in (IF kind = "lc0" THEN BOOLEAN ELSE {FALSE})
  /\ engineType = "none"
  /\ AdapterConstructed /\ EngineIdle /\ ManagerConstructed
  /\ reported = [s \in SearchIds |-> {}]
  /\ ExtIdle

\* ------------------------------------------------------ the engine process
\* The engine answers uci / isready.
EngineAck ==
  /\ engOwes # <<>> /\ Len(chan) < MaxChan
  /\ chan' = Append(chan, AckLine(Head(engOwes)))
  /\ engOwes' = Tail(engOwes)
  /\ UNCHANGED <<sent, engQ, engMultiPV, engInfo, adapterVars, managerVars, reported>>
  /\ UNCHANGED extVars

\* The engine reports a line of the search it is running.
EngineInfo ==
  /\ engQ # <<>> /\ Len(chan) < MaxChan /\ engInfo < MaxInfo
  /\ \E mpv \in 0..MaxCount, pv \in Moves \cup {"none"}, tok \in SearchScores :
       /\ mpv <= engMultiPV
       /\ pv = "none" => mpv = 0
       /\ chan' = Append(chan, InfoLine(mpv, pv, tok, Head(engQ)))
  /\ engInfo' = engInfo + 1
  /\ UNCHANGED <<sent, engQ, engOwes, engMultiPV, adapterVars, managerVars, reported>>
  /\ UNCHANGED extVars

\* The engine ends the search it is running (by itself or after stop).
EngineBestmove ==
  /\ engQ # <<>> /\ Len(chan) < MaxChan
  /\ \E m \in Moves : chan' = Append(chan, BestmoveLine(m, Head(engQ)))
  /\ engQ' = Tail(engQ)
  /\ engInfo' = 0
  /\ UNCHANGED <<sent, engOwes, engMultiPV, adapterVars, managerVars, reported>>
  /\ UNCHANGED extVars


\* -------------------------------------------------- promise continuations
\* What runs when the promise of search s settles as p: the rest of the
\* caller operation that awaits it.  sentBase is the command log after the
\* settling handler's own writes.
AdapterList(s, p) ==
  IF MaiaSinglePv
    THEN <<[rank |-> 0, idx |-> 1, move |-> p.move, from |-> p.from]>>
  ELSE IF kind = "lc0" THEN ListFrom(p.cands, 1, MaxCount)
  ELSE IF kind = "asm" THEN ListFrom(coll[s], 1, call[s].count)
  ELSE ListFrom(coll[s], 1, MaxCount)

Settle(s, p, sentBase) ==
  LET c == call[s]
      ok == p.st = "resolved"
      isCand == c.op \in {"getCandidateMoves", "mgrCandidates"}
      restores == isCand /\ ok /\ ~MaiaSinglePv /\ process
      candOk == isCand /\ ok /\ (MaiaSinglePv \/ process)
      entry == [seq |-> s, fen |-> c.fen, bestMove |-> p.move]
  IN
  /\ promise' = [promise EXCEPT ![s] = p]
  /\ sent' = IF restores THEN Append(sentBase, Cmd("setoption", OriginalMultiPV))
             ELSE sentBase
  /\ engMultiPV' = IF restores THEN OriginalMultiPV ELSE engMultiPV
  /\ wrapped' = IF restores /\ kind \in {"asm", "wasm"}
                  THEN {t \in wrapped : t < s} ELSE wrapped
  /\ call' = [call EXCEPT ![s] =
       CASE c.op = "getBestMove" ->
              [c EXCEPT !.st = IF ok THEN "ok" ELSE "error", !.bestMove = p.move]
         [] c.op = "analyzePosition" ->
              [c EXCEPT !.st = IF ok THEN "ok" ELSE "error", !.bestMove = p.move]
         [] c.op = "getCandidateMoves" ->
              IF candOk THEN [c EXCEPT !.st = "ok", !.list = AdapterList(s, p)]
              ELSE [c EXCEPT !.st = "error"]
         [] c.op = "mgrCandidates" ->
              IF candOk THEN [c EXCEPT !.st = "ok", !.list = RankList(AdapterList(s, p))]
              ELSE [c EXCEPT !.st = "error"]
         [] OTHER -> c]
  /\ analysisHistory' = IF c.op = "analyzePosition" /\ ok
                          THEN PushHistory(analysisHistory, entry)
                          ELSE analysisHistory
  /\ succLog' = IF c.op = "analyzePosition" /\ ok
                  THEN Append(succLog, entry) ELSE succLog
  /\ nFailed' = IF c.op = "analyzePosition" /\ ~ok THEN nFailed + 1 ELSE nFailed

NoSettle(sentBase) ==
  /\ sent' = sentBase
  /\ UNCHANGED <<promise, engMultiPV, wrapped, call, analysisHistory, succLog, nFailed>>

\* ------------------------------------------------------------- handshake
\* init(): spawn, send uci, wait for uciok.
AdapterInit ==
  /\ initPc = "new"
  /\ process' = TRUE
  /\ initPc' = "uciok"
  /\ waiting' = IF kind = "wasm" THEN waiting \cup {"uciok"} ELSE {"uciok"}
  /\ hsTimers' = hsTimers \cup {"uciok"}
  /\ sent' = Append(sent, Cmd("uci", 0))
  /\ engOwes' = Append(engOwes, "uciok")
  /\ UNCHANGED <<kind, isMaia, isReady, currentSearch, evaluation, pvLines, wrapped,
                 coll, promise, timers, nSearch, call, chan, engQ, engMultiPV, engInfo,
                 managerVars, reported>>
  /\ UNCHANGED extVars

DeliverAckReadyAtUciok ==
  /\ chan # <<>> /\ Head(chan).t \in Acks
  /\ LET a == Head(chan).t
         resumes == a \in waiting /\ initPc = a
     IN
     /\ chan' = Tail(chan)
     /\ waiting' = IF a \in waiting
                     THEN (IF resumes /\ a = "uciok" /\ process
                             THEN (waiting \ {a}) \cup {"readyok"}
                             ELSE waiting \ {a})
                     ELSE waiting
     /\ hsTimers' = LET h == IF a \in waiting THEN hsTimers \ {a} ELSE hsTimers
                    IN IF resumes /\ a = "uciok" /\ process
                         THEN h \cup {"readyok"} ELSE h
     /\ IF resumes /\ a = "uciok"
          THEN IF process
                 THEN /\ sent' = (IF ConfigMultiPV > 0
                                    THEN Append(sent, Cmd("setoption", ConfigMultiPV))
                                    ELSE sent) \o <<Cmd("isready", 0)>>
                      /\ engMultiPV' = IF ConfigMultiPV > 0 THEN ConfigMultiPV
                                       ELSE engMultiPV
                      /\ engOwes' = Append(engOwes, "readyok")
                      /\ initPc' = "readyok"
                      /\ isReady' = TRUE
                      /\ UNCHANGED mgrPhase
                 ELSE /\ initPc' = "failed"
                      /\ mgrPhase' = IF mgrPhase = "initializing" THEN "failed"
                                     ELSE mgrPhase
                      /\ UNCHANGED <<sent, engMultiPV, engOwes, isReady>>
          ELSE IF resumes /\ a = "readyok"
                 THEN /\ isReady' = TRUE
                      /\ initPc' = "done"
                      /\ mgrPhase' = IF mgrPhase = "initializing" THEN "ready"
                                     ELSE mgrPhase
                      /\ UNCHANGED <<sent, engMultiPV, engOwes>>
                 ELSE UNCHANGED <<sent, engMultiPV, engOwes, isReady, initPc, mgrPhase>>
  /\ UNCHANGED <<kind, isMaia, process, currentSearch, evaluation, pvLines, wrapped,
                 coll, promise, timers, nSearch, call, engQ, engInfo,
                 currentEngine, engineType, analysisHistory, mgrRejected,
                 nInits, nAnalyses, nFailed, succLog, reported>>
  /\ UNCHANGED extVars

\* handleEngineMessage on uciok / readyok, and the rest of init() it resumes.
\* StockfishEngine clears the wait's timer; the other two leave it armed, but
\* its callback then finds waitingFor changed and does nothing, so the model
\* disarms it here as well.
DeliverAck ==
  /\ chan # <<>> /\ Head(chan).t \in Acks
  /\ LET a == Head(chan).t
         resumes == a \in waiting /\ initPc = a
     IN
     /\ chan' = Tail(chan)
     /\ waiting' = IF a \in waiting
                     THEN (IF resumes /\ a = "uciok" /\ process
                             THEN (waiting \ {a}) \cup {"readyok"}
                             ELSE waiting \ {a})
                     ELSE waiting
     /\ hsTimers' = LET h == IF a \in waiting THEN hsTimers \ {a} ELSE hsTimers
                    IN IF resumes /\ a = "uciok" /\ process
                         THEN h \cup {"readyok"} ELSE h
     /\ IF resumes /\ a = "uciok"
          THEN IF process
                 THEN /\ sent' = (IF ConfigMultiPV > 0
                                    THEN Append(sent, Cmd("setoption", ConfigMultiPV))
                                    ELSE sent) \o <<Cmd("isready", 0)>>
                      /\ engMultiPV' = IF ConfigMultiPV > 0 THEN ConfigMultiPV
                                       ELSE engMultiPV
                      /\ engOwes' = Append(engOwes, "readyok")
                      /\ initPc' = "readyok"
                      /\ UNCHANGED <<isReady, mgrPhase>>
                 ELSE /\ initPc' = "failed"
                      /\ mgrPhase' = IF mgrPhase = "initializing" THEN "failed"
                                     ELSE mgrPhase
                      /\ UNCHANGED <<sent, engMultiPV, engOwes, isReady>>
          ELSE IF resumes /\ a = "readyok"
                 THEN /\ isReady' = TRUE
                      /\ initPc' = "done"
                      /\ mgrPhase' = IF mgrPhase = "initializing" THEN "ready"
                                     ELSE mgrPhase
                      /\ UNCHANGED <<sent, engMultiPV, engOwes>>
                 ELSE UNCHANGED <<sent, engMultiPV, engOwes, isReady, initPc, mgrPhase>>
  /\ UNCHANGED <<kind, isMaia, process, currentSearch, evaluation, pvLines, wrapped,
                 coll, promise, timers, nSearch, call, engQ, engInfo,
                 currentEngine, engineType, analysisHistory, mgrRejected,
                 nInits, nAnalyses, nFailed, succLog, reported>>
  /\ UNCHANGED extVars

HandshakeTimeoutIgnored ==
  \E a \in hsTimers :
    /\ hsTimers' = hsTimers \ {a}
    /\ UNCHANGED <<kind, isMaia, process, isReady, initPc, waiting, currentSearch,
                   evaluation, pvLines, wrapped, coll, promise, timers, nSearch, call,
                   engineVars, managerVars, reported>>
    /\ UNCHANGED extVars

\* The timer of waitFor / waitForMessage.
HandshakeTimeout ==
  \E a \in hsTimers :
    LET rejects == IF kind = "wasm" THEN TRUE ELSE a \in waiting
        fails == rejects /\ initPc = a
    IN
    /\ hsTimers' = hsTimers \ {a}
    /\ waiting' = IF kind # "wasm" /\ a \in waiting THEN {} ELSE waiting
    /\ initPc' = IF fails THEN "failed" ELSE initPc
    /\ mgrPhase' = IF fails /\ mgrPhase = "initializing" THEN "failed" ELSE mgrPhase
    /\ UNCHANGED <<kind, isMaia, process, isReady, currentSearch, evaluation, pvLines,
                   wrapped, coll, promise, timers, nSearch, call, engineVars,
                   currentEngine, engineType, analysisHistory, mgrRejected,
                   nInits, nAnalyses, nFailed, succLog, reported>>
    /\ UNCHANGED extVars


\* --------------------------------------------------------------- searches
\* getBestMove(options): the body of the adapter method, for search s issued
\* on behalf of caller operation c, after the commands in pre were written.
StartSearch(s, c, pre) ==
  /\ nSearch' = s
  /\ evaluation' = IF kind = "wasm" THEN evaluation ELSE NoEval
  /\ pvLines' = IF kind = "lc0" THEN EmptyPvMap ELSE pvLines
  /\ currentSearch' = s
  /\ promise' = [promise EXCEPT ![s] = [NoPromise EXCEPT !.st = "pending"]]
  /\ call' = [call EXCEPT ![s] = c]
  /\ sent' = IF process THEN pre \o <<Cmd("go", s)>> ELSE pre
  /\ engQ' = IF process THEN Append(engQ, s) ELSE engQ
  /\ timers' = timers \cup {s}

\* getCandidateMoves(count, options) of the adapter up to its await of the
\* search: setoption MultiPV, the collecting wrapper, getBestMove.
StartCandidateSearch(s, c, pre) ==
  IF MaiaSinglePv
    THEN /\ StartSearch(s, c, pre)
         /\ UNCHANGED <<engMultiPV, wrapped, coll>>
    ELSE /\ StartSearch(s, c, Append(pre, Cmd("setoption", c.count)))
         /\ engMultiPV' = c.count
         /\ wrapped' = IF kind = "lc0" THEN wrapped ELSE wrapped \cup {s}
         /\ coll' = [coll EXCEPT ![s] = EmptyPvMap]

NoCandidateCallPending ==
  \A s \in SearchIds :
    call[s].op \in {"getCandidateMoves", "mgrCandidates"} => call[s].st # "pending"

\* A caller invokes adapter.getBestMove().
GetBestMove ==
  /\ isReady /\ nSearch < MaxSearches
  /\ StartSearch(nSearch + 1,
                 [NoCall EXCEPT !.op = "getBestMove", !.st = "pending"], sent)
  /\ UNCHANGED <<kind, isMaia, process, isReady, initPc, waiting, hsTimers, wrapped,
                 coll, chan, engOwes, engMultiPV, engInfo, managerVars, reported>>
  /\ UNCHANGED extVars

\* A caller invokes adapter.getCandidateMoves(count).
GetCandidateMoves ==
  /\ isReady /\ nSearch < MaxSearches /\ NoCandidateCallPending
  /\ MaiaSinglePv \/ process
  /\ \E count \in 1..MaxCount :
       StartCandidateSearch(nSearch + 1,
         [NoCall EXCEPT !.op = "getCandidateMoves", !.st = "pending",
                        !.count = count], sent)
  /\ UNCHANGED <<kind, isMaia, process, isReady, initPc, waiting, hsTimers,
                 chan, engOwes, engInfo, managerVars, reported>>
  /\ UNCHANGED extVars

\* handleEngineMessage on a bestmove line.
DeliverBestmove ==
  /\ chan # <<>> /\ Head(chan).t = "bestmove"
  /\ chan' = Tail(chan)
  /\ IF currentSearch = 0
       THEN /\ NoSettle(sent)
            /\ UNCHANGED <<currentSearch, pvLines>>
       ELSE /\ Settle(currentSearch,
                      [st |-> "resolved", move |-> Head(chan).move,
                       from |-> Head(chan).from, ev |-> evaluation,
                       cands |-> IF kind = "lc0" THEN pvLines ELSE EmptyPvMap],
                      sent)
            /\ currentSearch' = 0
            /\ pvLines' = IF kind = "lc0" THEN EmptyPvMap ELSE pvLines
  /\ UNCHANGED <<kind, isMaia, process, isReady, initPc, waiting, hsTimers,
                 evaluation, coll, timers, nSearch, engQ, engOwes, engInfo,
                 currentEngine, engineType, mgrPhase, mgrRejected, nInits, nAnalyses,
                 reported>>
  /\ UNCHANGED extVars

\* this.parseInfoMessage(line), wrapped or not, for an info line.
HandleInfo(line) ==
  LET info == ParseInfoMessage(kind, line)
      ev == IF UpdatesEvaluation(info) THEN info ELSE evaluation
  IN
  /\ evaluation' = ev
  /\ pvLines' = IF kind = "lc0" /\ Lc0StoresPv(info)
                  THEN [pvLines EXCEPT ![info.multipv] =
                          [has |-> TRUE, move |-> info.pv, from |-> info.from]]
                  ELSE pvLines
  /\ coll' = [s \in SearchIds |->
                IF s \in wrapped THEN WrapperStore(coll[s], ev) ELSE coll[s]]
  /\ reported' = IF currentSearch # 0 /\ line.from = currentSearch
                      /\ line.multipv # 0 /\ line.pv # "none"
                   THEN [reported EXCEPT ![currentSearch] = @ \cup {line.multipv}]
                   ELSE reported

\* handleEngineMessage on an info line.
DeliverInfo ==
  /\ chan # <<>> /\ Head(chan).t = "info"
  /\ chan' = Tail(chan)
  /\ HandleInfo(Head(chan))
  /\ UNCHANGED <<kind, isMaia, process, isReady, initPc, waiting, hsTimers,
                 currentSearch, wrapped, promise, timers, nSearch, call,
                 sent, engQ, engOwes, engMultiPV, engInfo, managerVars>>
  /\ UNCHANGED extVars

TimeoutLifecycleDead == isReady' = FALSE /\ UNCHANGED <<process, initPc>>

\* The timeout callback writes neither isReady nor the process handle, and
\* does not restart init().
TimeoutLifecycle == UNCHANGED <<process, isReady, initPc>>

\* The setTimeout callback armed by search s.
SearchTimeout ==
  \E s \in timers :
    /\ timers' = timers \ {s}
    /\ IF currentSearch = 0
         THEN /\ NoSettle(sent)
              /\ UNCHANGED currentSearch
         ELSE /\ currentSearch' = 0
              /\ IF kind = "wasm"
                   THEN Settle(currentSearch,
                               [NoPromise EXCEPT !.st = "rejected"], sent)
                   ELSE LET stopped == IF process THEN Append(sent, Cmd("stop", 0))
                                       ELSE sent
                        IN IF promise[s].st = "pending"
                             THEN Settle(s, [NoPromise EXCEPT !.st = "rejected"],
                                         stopped)
                             ELSE NoSettle(stopped)
    /\ TimeoutLifecycle
    /\ UNCHANGED <<kind, isMaia, waiting, hsTimers,
                   evaluation, pvLines, coll, nSearch, chan, engQ, engOwes, engInfo,
                   currentEngine, engineType, mgrPhase, mgrRejected, nInits, nAnalyses,
                   reported>>
    /\ UNCHANGED extVars

\* adapter.quit()
AdapterQuit ==
  /\ process
  /\ sent' = Append(sent, Cmd("quit", 0))
  /\ process' = FALSE
  /\ isReady' = FALSE
  /\ engQ' = <<>> /\ engOwes' = <<>> /\ engInfo' = 0

Quit ==
  /\ AdapterQuit
  /\ UNCHANGED <<kind, isMaia, initPc, waiting, hsTimers, currentSearch, evaluation,
                 pvLines, wrapped, coll, promise, timers, nSearch, call,
                 chan, engMultiPV, managerVars, reported>>
  /\ UNCHANGED extVars

EngineStep == EngineAck \/ EngineInfo \/ EngineBestmove
AdapterStep == DeliverAck \/ DeliverBestmove \/ DeliverInfo
                 \/ HandshakeTimeout \/ SearchTimeout

Next ==
  \/ AdapterInit \/ GetBestMove \/ GetCandidateMoves \/ Quit
  \/ EngineAck \/ EngineInfo \/ EngineBestmove
  \/ DeliverAck \/ DeliverBestmove \/ DeliverInfo
  \/ HandshakeTimeout \/ SearchTimeout

Spec == Init /\ [][Next]_vars


\* ------------------------------------------------------ a sequential caller
\* A caller that starts a search only after the previous one has settled.
NoSearchPending == \A s \in SearchIds : promise[s].st # "pending"

SeqGetBestMove == NoSearchPending /\ GetBestMove

SeqGetCandidateMoves == NoSearchPending /\ GetCandidateMoves

SeqNext ==
  \/ AdapterInit \/ SeqGetBestMove \/ SeqGetCandidateMoves \/ Quit
  \/ EngineAck \/ EngineInfo \/ EngineBestmove
  \/ DeliverAck \/ DeliverBestmove \/ DeliverInfo
  \/ HandshakeTimeout \/ SearchTimeout

SeqSpec == Init /\ [][SeqNext]_vars

\* setTimeout callbacks run once their delay has passed.
SeqFairSpec == SeqSpec /\ WF_vars(SearchTimeout)


\* ------------------------------------------------------------ EngineManager
NoCallPending == \A s \in SearchIds : call[s].st # "pending"

\* The switch of init(): the adapter class constructed for an engine type.
AdapterFor(type) ==
  IF type = "stockfish-wasm" THEN "wasm"
  ELSE IF type = "stockfish" THEN "asm"
  ELSE "none"

\* EngineManager.init(engineType) / switchEngine(engineType): quit the current
\* adapter, construct the new one and start its init().  The lc0, maia and
\* default branches throw after the old adapter was quit.
MgrInitOf(types) ==
  /\ mgrPhase # "initializing" /\ nInits < MaxInits /\ NoCallPending
  /\ \E type \in types :
       LET quits == currentEngine /\ process
           sent1 == IF quits THEN Append(sent, Cmd("quit", 0)) ELSE sent
       IN
       /\ engineType' = type
       /\ nInits' = nInits + 1
       /\ IF AdapterFor(type) # "none"
            THEN /\ kind' = AdapterFor(type)
                 /\ isMaia' = FALSE
                 /\ currentEngine' = TRUE
                 /\ mgrPhase' = "initializing"
                 /\ process' = TRUE /\ isReady' = FALSE /\ initPc' = "uciok"
                 /\ waiting' = {"uciok"} /\ hsTimers' = {"uciok"}
                 /\ currentSearch' = 0 /\ evaluation' = NoEval
                 /\ pvLines' = EmptyPvMap /\ wrapped' = {} /\ timers' = {}
                 /\ chan' = <<>> /\ engQ' = <<>> /\ engOwes' = <<"uciok">>
                 /\ engMultiPV' = 1 /\ engInfo' = 0
                 /\ sent' = Append(sent1, Cmd("uci", 0))
            ELSE /\ currentEngine' = FALSE
                 /\ mgrPhase' = "failed"
                 /\ sent' = sent1
                 /\ process' = IF currentEngine THEN FALSE ELSE process
                 /\ isReady' = IF quits THEN FALSE ELSE isReady
                 /\ engQ' = IF quits THEN <<>> ELSE engQ
                 /\ engOwes' = IF quits THEN <<>> ELSE engOwes
                 /\ engInfo' = IF quits THEN 0 ELSE engInfo
                 /\ UNCHANGED <<kind, isMaia, initPc, waiting, hsTimers, currentSearch,
                                evaluation, pvLines, wrapped, timers, chan, engMultiPV>>
  /\ UNCHANGED <<coll, promise, nSearch, call, analysisHistory, mgrRejected,
                 nAnalyses, nFailed, succLog, reported>>
  /\ UNCHANGED extVars

MgrInit == MgrInitOf(EngineTypes)

\* EngineManager.quit()
MgrQuit ==
  /\ mgrPhase # "quit"
  /\ IF currentEngine /\ process
       THEN AdapterQuit
       ELSE UNCHANGED <<sent, process, isReady, engQ, engOwes, engInfo>>
  /\ currentEngine' = FALSE
  /\ mgrPhase' = "quit"
  /\ UNCHANGED <<kind, isMaia, initPc, waiting, hsTimers, currentSearch, evaluation,
                 pvLines, wrapped, coll, promise, timers, nSearch, call,
                 chan, engMultiPV, engineType, analysisHistory, mgrRejected, nInits,
                 nAnalyses, nFailed, succLog, reported>>
  /\ UNCHANGED extVars

\* The throw of the ready check: nothing else happens.
MgrRefuse ==
  /\ mgrRejected < MaxRejected
  /\ mgrRejected' = mgrRejected + 1
  /\ UNCHANGED <<adapterVars, engineVars, currentEngine, engineType, analysisHistory,
                 mgrPhase, nInits, nAnalyses, nFailed, succLog, reported>>
  /\ UNCHANGED extVars

MgrAnalyzeNoPosition(fens) ==
  /\ NoCallPending
  /\ IF ManagerNotReady
       THEN MgrRefuse
       ELSE /\ nSearch < MaxSearches /\ process
            /\ \E fen \in fens :
                 StartSearch(nSearch + 1,
                   [NoCall EXCEPT !.op = "analyzePosition", !.st = "pending",
                                  !.fen = fen, !.epoch = nInits],
                   sent)
            /\ nAnalyses' = nAnalyses + 1
            /\ UNCHANGED <<kind, isMaia, process, isReady, initPc, waiting, hsTimers,
                           wrapped, coll, chan, engOwes, engMultiPV, engInfo,
                           currentEngine, engineType, analysisHistory, mgrPhase,
                           mgrRejected, nInits, nFailed, succLog, reported>>
  /\ UNCHANGED extVars

\* EngineManager.analyzePosition(fen) up to its await of getBestMove, for a
\* position out of fens.
MgrAnalyzeOf(fens) ==
  /\ NoCallPending
  /\ IF ManagerNotReady
       THEN MgrRefuse
       ELSE /\ nSearch < MaxSearches /\ process
            /\ \E fen \in fens :
                 StartSearch(nSearch + 1,
                   [NoCall EXCEPT !.op = "analyzePosition", !.st = "pending",
                                  !.fen = fen, !.epoch = nInits],
                   Append(sent, Cmd("position", fen)))
            /\ nAnalyses' = nAnalyses + 1
            /\ UNCHANGED <<kind, isMaia, process, isReady, initPc, waiting, hsTimers,
                           wrapped, coll, chan, engOwes, engMultiPV, engInfo,
                           currentEngine, engineType, analysisHistory, mgrPhase,
                           mgrRejected, nInits, nFailed, succLog, reported>>
  /\ UNCHANGED extVars

MgrAnalyze == MgrAnalyzeOf(1..MaxFen)

\* EngineManager.getCandidateMoves(fen, count) up to the adapter's await, for
\* a position out of fens.
MgrCandidatesOf(fens) ==
  /\ NoCallPending
  /\ IF ManagerNotReady
       THEN MgrRefuse
       ELSE /\ nSearch < MaxSearches /\ process
            /\ \E fen \in fens, count \in 1..MaxCount :
                 StartCandidateSearch(nSearch + 1,
                   [NoCall EXCEPT !.op = "mgrCandidates", !.st = "pending",
                                  !.fen = fen, !.count = count, !.epoch = nInits],
                   Append(sent, Cmd("position", fen)))
            /\ UNCHANGED <<kind, isMaia, process, isReady, initPc, waiting, hsTimers,
                           chan, engOwes, engInfo, managerVars, reported>>
  /\ UNCHANGED extVars

MgrCandidates == MgrCandidatesOf(1..MaxFen)

ManagerAlone ==
  /\ kind = "none" /\ isMaia = FALSE
  /\ engineType = "stockfish-wasm"
  /\ AdapterConstructed /\ EngineIdle /\ ManagerConstructed
  /\ reported = [s \in SearchIds |-> {}]

ManagerInit == ManagerAlone /\ ExtIdle

ManagerNext ==
  \/ MgrInit \/ MgrQuit \/ MgrAnalyze \/ MgrCandidates
  \/ EngineAck \/ EngineInfo \/ EngineBestmove
  \/ DeliverAck \/ DeliverBestmove \/ DeliverInfo
  \/ HandshakeTimeout \/ SearchTimeout

ManagerSpec == ManagerInit /\ [][ManagerNext]_vars


\* --------------------------------------------------- the analysis history
\* EngineManager.analyzePosition from its ready check to its return, with the
\* adapter's search reduced to its outcome: getBestMove resolves with a move
\* or rejects.
HistFens == {1}
HistMoves == {"e2e4"}

HistAnalyze ==
  /\ NoCallPending
  /\ IF ManagerNotReady
       THEN MgrRefuse
       ELSE /\ nAnalyses < MaxAnalyses
            /\ nAnalyses' = nAnalyses + 1
            /\ \/ \E fen \in HistFens, m \in HistMoves :
                    LET entry == [seq |-> nAnalyses + 1, fen |-> fen, bestMove |-> m]
                    IN /\ analysisHistory' = PushHistory(analysisHistory, entry)
                       /\ succLog' = Append(succLog, entry)
                       /\ UNCHANGED nFailed
               \/ /\ nFailed < MaxFailed
                  /\ nFailed' = nFailed + 1
                  /\ UNCHANGED <<analysisHistory, succLog>>
            /\ UNCHANGED <<adapterVars, engineVars, currentEngine, engineType,
                           mgrPhase, mgrRejected, nInits, reported>>
  /\ UNCHANGED extVars

HistoryNext == MgrInit \/ EngineAck \/ DeliverAck \/ HistAnalyze

HistorySpec == ManagerInit /\ [][HistoryNext]_vars

\* ------------------------------------------------------- score parsing
CpValues == {-MaxCp, 0, MaxCp}
MateValues == {n \in -MaxMate..MaxMate : n # 0}
ScoreTokens == {<<"cp", c>> : c \in CpValues} \cup {<<"mate", n>> : n \in MateValues}

\* parseInfoMessage applied to an info line carrying a score token.
ParseLine ==
  /\ \E tok \in ScoreTokens, mpv \in 0..1, pv \in Moves \cup {"none"} :
       HandleInfo(InfoLine(mpv, pv, tok, 0))
  /\ UNCHANGED <<kind, isMaia, process, isReady, initPc, waiting, hsTimers,
                 currentSearch, wrapped, promise, timers, nSearch, call,
                 engineVars, managerVars>>
  /\ UNCHANGED extVars

ParseSpec == Init /\ [][ParseLine]_vars

\* ---------------------------------------- the adapters of one EngineManager
\* Every adapter object the manager constructs, with the lifetime of its engine
\* instance: eng is "null" (this.process / this.engine not assigned), "loading"
\* (StockfishEngine.init awaits stockfish()), "alive" or "gone" (quit sent).
MaxObjs == 3

ObjKinds == {"wasm", "asm"}

NewObj(k) == [kind |-> k, eng |-> "null", pc |-> "new", ready |-> FALSE,
              quitSent |-> FALSE]

\* StockfishAsmEngine.quit / StockfishEngine.quit: both act only on a non-null
\* engine handle.
ObjQuit(o) ==
  IF o.eng = "alive"
    THEN [o EXCEPT !.eng = "gone", !.ready = FALSE, !.quitSent = TRUE]
    ELSE o

\* The first step of the adapter's init(): StockfishAsmEngine spawns its
\* process at once and writes uci; StockfishEngine awaits stockfish().
ObjInitStart(o) ==
  IF o.kind = "asm"
    THEN [o EXCEPT !.eng = "alive", !.pc = "uciok"]
    ELSE [o EXCEPT !.eng = "loading", !.pc = "create"]

\* EngineManager.quit applied to the object list.
QuitCurrent == IF currentObj = 0 THEN objs
               ELSE [objs EXCEPT ![currentObj] = ObjQuit(objs[currentObj])]

\* EngineManager.init(type) / switchEngine(type), up to its await of the new
\* adapter's init(): quit and drop the current adapter, then construct the
\* adapter of the requested family and start its init.
SwitchEngine ==
  \E type \in EngineTypes :
    /\ engineType' = type
    /\ IF type \in {"stockfish-wasm", "stockfish"}
         THEN /\ Len(objs) < MaxObjs
              /\ objs' = Append(QuitCurrent,
                                ObjInitStart(NewObj(IF type = "stockfish"
                                                    THEN "asm" ELSE "wasm")))
              /\ currentObj' = Len(objs) + 1
              /\ currentEngine' = TRUE
         ELSE /\ objs' = QuitCurrent
              /\ currentObj' = 0
              /\ currentEngine' = FALSE
    /\ UNCHANGED <<adapterVars, engineVars, analysisHistory, mgrPhase, mgrRejected,
                   nInits, nAnalyses, nFailed, succLog, reported>>
    /\ UNCHANGED <<poolVars, dualVars, histVars>>

\* EngineManager.quit().
SwitchQuit ==
  /\ currentObj # 0
  /\ objs' = QuitCurrent
  /\ currentObj' = 0
  /\ currentEngine' = FALSE
  /\ UNCHANGED <<adapterVars, engineVars, engineType, analysisHistory, mgrPhase,
                 mgrRejected, nInits, nAnalyses, nFailed, succLog, reported>>
  /\ UNCHANGED <<poolVars, dualVars, histVars>>

\* stockfish() resolves: this.engine is assigned and uci is posted.
ObjCreated ==
  \E i \in DOMAIN objs :
    /\ objs[i].pc = "create"
    /\ objs' = [objs EXCEPT ![i].eng = "alive", ![i].pc = "uciok"]
    /\ UNCHANGED <<currentObj, adapterVars, engineVars, managerVars, reported>>
    /\ UNCHANGED <<poolVars, dualVars, histVars>>

\* The engine of object i answers the handshake line its init() waits for.
ObjAck ==
  \E i \in DOMAIN objs :
    /\ objs[i].eng = "alive"
    /\ objs[i].pc \in {"uciok", "readyok"}
    /\ objs' = IF objs[i].pc = "uciok"
                 THEN [objs EXCEPT ![i].pc = "readyok"]
                 ELSE [objs EXCEPT ![i].pc = "done", ![i].ready = TRUE]
    /\ UNCHANGED <<currentObj, adapterVars, engineVars, managerVars, reported>>
    /\ UNCHANGED <<poolVars, dualVars, histVars>>

\* The handshake wait of object i times out: its init() rejects.
ObjTimeout ==
  \E i \in DOMAIN objs :
    /\ objs[i].pc \in {"uciok", "readyok"}
    /\ objs' = [objs EXCEPT ![i].pc = "failed"]
    /\ UNCHANGED <<currentObj, adapterVars, engineVars, managerVars, reported>>
    /\ UNCHANGED <<poolVars, dualVars, histVars>>

SwitchNext == SwitchEngine \/ SwitchQuit \/ ObjCreated \/ ObjAck \/ ObjTimeout

SwitchSpec == ManagerInit /\ [][SwitchNext]_vars

\* ------------------------------------------------------ EnginePoolManager
MaxPoolCalls == 4
MaxOverlap == 2

\* ENGINES_CONFIG: identifier -> display name.
ENGINES_CONFIG ==
  [id \in {"stockfish-native-max", "stockfish-native-17", "stockfish-native-12",
           "lc0-default", "maia-1100", "maia-1100-random", "maia-1500",
           "maia-1500-focused", "maia-1900", "maia-1900-strong",
           "stockfish-native"} |->
     CASE id = "stockfish-native-max" -> "Stockfish Native (Max)"
       [] id = "stockfish-native-17" -> "Stockfish Native (Skill 17)"
       [] id = "stockfish-native-12" -> "Stockfish Native (Skill 12)"
       [] id = "lc0-default" -> "Leela Chess Zero"
       [] id = "maia-1100" -> "Maia 1100 (Beginner)"
       [] id = "maia-1100-random" -> "Maia 1100 (Random)"
       [] id = "maia-1500" -> "Maia 1500 (Intermediate)"
       [] id = "maia-1500-focused" -> "Maia 1500 (Focused)"
       [] id = "maia-1900" -> "Maia 1900 (Advanced)"
       [] id = "maia-1900-strong" -> "Maia 1900 (Strong)"
       [] id = "stockfish-native" -> "Stockfish Native"]

EngineIds == DOMAIN ENGINES_CONFIG

\* ENGINES_CONFIG[id]?.name
EngineName(id) == IF id \in EngineIds THEN ENGINES_CONFIG[id] ELSE "undefined"

\* ENGINE_POOLS, the pools exercised here.
ENGINE_POOLS ==
  [n \in {"stockfish", "maia", "human-like", "test"} |->
     CASE n = "stockfish" -> <<"stockfish-native-max">>
       [] n = "maia" -> <<"maia-1100", "maia-1500", "maia-1900">>
       [] n = "human-like" -> <<"maia-1100", "maia-1100-random", "maia-1500",
                                "maia-1500", "maia-1500-focused", "maia-1900",
                                "stockfish-native-17">>
       [] n = "test" -> <<"stockfish-native-17", "maia-1500">>]

PoolNames == DOMAIN ENGINE_POOLS

GetEnginePoolStrict(poolName) ==
  IF poolName \in PoolNames THEN ENGINE_POOLS[poolName] ELSE <<>>

\* getEnginePool(poolName)
GetEnginePool(poolName) ==
  IF poolName \in PoolNames THEN ENGINE_POOLS[poolName] ELSE ENGINE_POOLS["stockfish"]

\* The configurations a pool manager is constructed with.
PoolConfigs ==
  [pool : {"stockfish", "maia", "human-like", "test", "no-such-pool"},
   selection : {"random", "sequential", "weighted", "single"},
   switchEvery : {0, 1, 2}]

\* The identifiers a caller passes to switchToEngine.
SwitchTargets == {"stockfish-native", "maia-1500", "no-such-engine"}

\* (poolIndex + 1) % 0 is NaN, and stays NaN.
NaN == -1

\* array[index]: undefined outside the array.
At(arr, index) ==
  IF index \in 0..(Len(arr) - 1) THEN arr[index + 1] ELSE "undefined"

RECURSIVE WithoutFirst(_, _)
WithoutFirst(arr, id) ==
  IF arr = <<>> THEN <<>>
  ELSE IF Head(arr) = id THEN Tail(arr)
  ELSE <<Head(arr)>> \o WithoutFirst(Tail(arr), id)

\* this.poolEngines.filter((id) => id !== engineId)
RECURSIVE Without(_, _)
Without(arr, id) ==
  IF arr = <<>> THEN <<>>
  ELSE (IF Head(arr) = id THEN <<>> ELSE <<Head(arr)>>) \o Without(Tail(arr), id)

\* selectRandomEngine: any element (undefined for an empty pool).
SelectRandomEngine(arr) ==
  IF arr = <<>> THEN {[id |-> "undefined", next |-> poolIndex]}
  ELSE {[id |-> arr[i], next |-> poolIndex] : i \in DOMAIN arr}

\* selectSequentialEngine: the element at poolIndex, then poolIndex advances
\* modulo the current length.
SelectSequentialEngine(arr) ==
  {[id |-> At(arr, poolIndex),
    next |-> IF poolIndex = NaN \/ arr = <<>> THEN NaN
             ELSE (poolIndex + 1) % Len(arr)]}

\* selectWeightedEngine: with positive weights of matching length any element
\* can be drawn; otherwise it falls back to selectRandomEngine.
SelectWeightedEngine(arr) == SelectRandomEngine(arr)

\* The switch of selectAndInitEngine: the identifier picked and the next
\* poolIndex.
Picks(arr) ==
  CASE poolConfig.selection = "random" -> SelectRandomEngine(arr)
    [] poolConfig.selection = "sequential" -> SelectSequentialEngine(arr)
    [] poolConfig.selection = "weighted" -> SelectWeightedEngine(arr)
    [] OTHER -> {[id |-> At(arr, 0), next |-> poolIndex]}

ShouldSwitchAtZero ==
  IF poolConfig.selection = "single" THEN FALSE
  ELSE IF poolConfig.switchEvery <= 0 THEN FALSE
  ELSE moveCount % poolConfig.switchEvery = 0

\* shouldSwitchEngine()
ShouldSwitchEngine ==
  IF poolConfig.selection = "single" THEN FALSE
  ELSE IF poolConfig.switchEvery <= 0 THEN FALSE
  ELSE moveCount > 0 /\ moveCount % poolConfig.switchEvery = 0

NewCall(op) ==
  [op |-> op, pc |-> "new", target |-> "none", switched |-> FALSE,
   sel |-> "none", poolLeft |-> 0, served |-> "none",
   stampId |-> "none", stampName |-> "none", err |-> "none"]

\* selectAndInitEngine up to its first await, for the call recorded as rec over
\* pool list arr: pick by strategy; a cached engine becomes current at once
\* (the call goes on at cachedPc), an uncached one starts initializeEngine,
\* which throws at once for an identifier without configuration.
SelectThenInit(rec, arr, cachedPc) ==
  \E p \in Picks(arr) :
    /\ poolIndex' = p.next
    /\ selLog' = Append(selLog, [id |-> p.id, pool |-> arr])
    /\ IF p.id \in engines
         THEN /\ currentEngineId' = p.id
              /\ pcalls' = Append(pcalls, [rec EXCEPT !.sel = p.id, !.pc = cachedPc])
         ELSE /\ UNCHANGED currentEngineId
              /\ pcalls' = Append(pcalls,
                   IF p.id \in EngineIds
                     THEN [rec EXCEPT !.sel = p.id, !.pc = "initEngine"]
                     ELSE [rec EXCEPT !.sel = p.id, !.pc = "failed",
                                      !.err = "Engine configuration not found"])

NotPool == <<adapterVars, engineVars, managerVars, reported, switchVars, dualVars,
            histVars>>

\* EnginePoolManager.init(), made once.
PoolInit ==
  /\ Len(pcalls) < MaxPoolCalls
  /\ \A c \in DOMAIN pcalls : pcalls[c].op # "init"
  /\ poolEngines' = GetEnginePool(poolConfig.pool)
  /\ IF poolEngines' = <<>>
       THEN /\ pcalls' = Append(pcalls, [NewCall("init") EXCEPT !.pc = "failed",
                                           !.err = "No engines defined in pool"])
            /\ UNCHANGED <<poolIndex, currentEngineId, selLog>>
       ELSE SelectThenInit(NewCall("init"), poolEngines', "done")
  /\ UNCHANGED <<poolConfig, engines, moveCount, NotPool>>

\* A direct call of selectAndInitEngine(), by a caller that has called init().
SelectAndInitEngine ==
  /\ Len(pcalls) < MaxPoolCalls
  /\ \E c \in DOMAIN pcalls : pcalls[c].op = "init"
  /\ SelectThenInit(NewCall("select"), poolEngines, "done")
  /\ UNCHANGED <<poolConfig, poolEngines, engines, moveCount, NotPool>>

\* analyzePosition() up to its first await: refuses without a current engine;
\* when shouldSwitchEngine() it selects first; otherwise it counts the move and
\* starts the search on the current engine at once.
PoolAnalyzePosition ==
  /\ Len(pcalls) < MaxPoolCalls
  /\ IF currentEngineId = "null"
       THEN /\ pcalls' = Append(pcalls, [NewCall("analyze") EXCEPT !.pc = "failed",
                                           !.err = "No engine selected"])
            /\ UNCHANGED <<poolIndex, currentEngineId, moveCount, selLog>>
       ELSE IF ShouldSwitchEngine
         THEN /\ SelectThenInit([NewCall("analyze") EXCEPT !.switched = TRUE],
                                poolEngines, "selected")
              /\ UNCHANGED moveCount
         ELSE /\ moveCount' = moveCount + 1
              /\ pcalls' = Append(pcalls, [NewCall("analyze") EXCEPT !.pc = "search",
                                             !.served = currentEngineId])
              /\ UNCHANGED <<poolIndex, currentEngineId, selLog>>
  /\ UNCHANGED <<poolConfig, poolEngines, engines, NotPool>>

\* analyzePosition() after `await this.selectAndInitEngine()` returned for a
\* cached engine: count the move and start the search on this.currentEngine.
PoolAnalyzeStart ==
  \E c \in DOMAIN pcalls :
    /\ pcalls[c].pc = "selected"
    /\ moveCount' = moveCount + 1
    /\ pcalls' = [pcalls EXCEPT ![c].pc = "search", ![c].served = currentEngineId]
    /\ UNCHANGED <<poolConfig, poolEngines, poolIndex, engines, currentEngineId,
                   selLog, NotPool>>

\* switchToEngine(engineId)
PoolSwitchToEngine ==
  /\ Len(pcalls) < MaxPoolCalls
  /\ \E id \in SwitchTargets :
       LET rec == [NewCall("switchTo") EXCEPT !.target = id] IN
       IF id \notin EngineIds
         THEN /\ pcalls' = Append(pcalls, [rec EXCEPT !.pc = "failed",
                                                      !.err = "Unknown engine"])
              /\ UNCHANGED currentEngineId
         ELSE IF id \in engines
           THEN /\ currentEngineId' = id
                /\ pcalls' = Append(pcalls, [rec EXCEPT !.pc = "done"])
           ELSE /\ pcalls' = Append(pcalls, [rec EXCEPT !.sel = id, !.pc = "initEngine"])
                /\ UNCHANGED currentEngineId
  /\ UNCHANGED <<poolConfig, poolEngines, poolIndex, engines, moveCount, selLog,
                 NotPool>>

\* initializeEngine: manager.init() resolved.  The engine is cached, then the
\* awaiting selectAndInitEngine / switchToEngine makes it current, and an
\* awaiting analyzePosition counts the move and starts its search on it.
PoolInitDone ==
  \E c \in DOMAIN pcalls :
    /\ pcalls[c].pc = "initEngine"
    /\ engines' = engines \cup {pcalls[c].sel}
    /\ currentEngineId' = pcalls[c].sel
    /\ IF pcalls[c].op = "analyze"
         THEN /\ moveCount' = moveCount + 1
              /\ pcalls' = [pcalls EXCEPT ![c].pc = "search",
                                          ![c].served = pcalls[c].sel]
         ELSE /\ pcalls' = [pcalls EXCEPT ![c].pc = "done"]
              /\ UNCHANGED moveCount
    /\ UNCHANGED <<poolConfig, poolEngines, poolIndex, selLog, NotPool>>

RethrowSwallowed(c) == [pcalls EXCEPT ![c].pc = "done"]

\* What the catch block of initializeEngine does with the error.
Rethrow(c) ==
  [pcalls EXCEPT ![c].pc = "failed", ![c].err = "init failed",
                 ![c].poolLeft = Len(Without(poolEngines, pcalls[c].sel))]

\* initializeEngine: manager.init() rejected.  The identifier is filtered out
\* of poolEngines and the error is thrown on to the caller.
PoolInitFail ==
  \E c \in DOMAIN pcalls :
    /\ pcalls[c].pc = "initEngine"
    /\ poolEngines' = Without(poolEngines, pcalls[c].sel)
    /\ pcalls' = Rethrow(c)
    /\ UNCHANGED <<poolConfig, poolIndex, engines, currentEngineId, moveCount,
                   selLog, NotPool>>

\* The identifier analyzePosition reads for result.engineId.
Stamp(c) == currentEngineId

\* The search of an analyzePosition call resolved: the result is stamped.
PoolSearchDone ==
  \E c \in DOMAIN pcalls :
    /\ pcalls[c].pc = "search"
    /\ pcalls' = [pcalls EXCEPT ![c].pc = "done", ![c].stampId = Stamp(c),
                                ![c].stampName = EngineName(Stamp(c))]
    /\ UNCHANGED <<poolConfig, poolEngines, poolIndex, engines, currentEngineId,
                   moveCount, selLog, NotPool>>

\* The search of an analyzePosition call rejected.
PoolSearchFail ==
  \E c \in DOMAIN pcalls :
    /\ pcalls[c].pc = "search"
    /\ pcalls' = [pcalls EXCEPT ![c].pc = "failed", ![c].err = "search failed"]
    /\ UNCHANGED <<poolConfig, poolEngines, poolIndex, engines, currentEngineId,
                   moveCount, selLog, NotPool>>

PoolStart ==
  /\ ManagerAlone /\ NoObjects /\ DualIdle /\ HistIdle
  /\ \E cfg \in PoolConfigs : PoolConstructed(cfg)

\* Callers that let at most MaxOverlap calls on the pool manager overlap.
PendingCalls == {c \in DOMAIN pcalls : pcalls[c].pc \notin {"done", "failed"}}

MayCall == Cardinality(PendingCalls) < MaxOverlap

OvlPoolInit == MayCall /\ PoolInit

OvlSelectAndInitEngine == MayCall /\ SelectAndInitEngine

OvlPoolAnalyzePosition == MayCall /\ PoolAnalyzePosition

OvlPoolSwitchToEngine == MayCall /\ PoolSwitchToEngine

PoolNext ==
  \/ OvlPoolInit \/ OvlSelectAndInitEngine \/ OvlPoolAnalyzePosition
  \/ OvlPoolSwitchToEngine
  \/ PoolAnalyzeStart \/ PoolInitDone \/ PoolInitFail
  \/ PoolSearchDone \/ PoolSearchFail

\* The overlapping callers are run over the two smallest pools.
OverlapStart == PoolStart /\ poolConfig.pool \in {"stockfish", "test"}

PoolSpec == OverlapStart /\ [][PoolNext]_vars

\* A caller that awaits each call on the pool manager before the next.
NoPoolCallPending ==
  \A c \in DOMAIN pcalls : pcalls[c].pc \in {"done", "failed"}

SeqPoolInit == NoPoolCallPending /\ PoolInit

SeqSelectAndInitEngine == NoPoolCallPending /\ SelectAndInitEngine

SeqPoolAnalyzePosition == NoPoolCallPending /\ PoolAnalyzePosition

SeqPoolSwitchToEngine == NoPoolCallPending /\ PoolSwitchToEngine

PoolSeqNext ==
  \/ SeqPoolInit \/ SeqSelectAndInitEngine \/ SeqPoolAnalyzePosition
  \/ SeqPoolSwitchToEngine
  \/ PoolAnalyzeStart \/ PoolInitDone \/ PoolInitFail
  \/ PoolSearchDone \/ PoolSearchFail

PoolSeqSpec == PoolStart /\ [][PoolSeqNext]_vars

\* ----------------------------------------------------------- DualAnalysis
MaxDualCalls == 2

DualMoves == {"e2e4", "d2d4", "g1f3"}

\* n / d as JavaScript computes it, kept as an exact fraction; 0 / 0 is NaN.
NotANumber == [num |-> 0, den |-> 0]

Div(n, d) == IF d = 0 THEN NotANumber ELSE [num |-> n, den |-> d]

\* Object.keys(moves): the best moves of the results, in first-insertion order.
RECURSIVE MoveKeys(_, _)
MoveKeys(res, seen) ==
  IF res = <<>> THEN <<>>
  ELSE IF Head(res).bestMove \in seen THEN MoveKeys(Tail(res), seen)
  ELSE <<Head(res).bestMove>> \o MoveKeys(Tail(res), seen \cup {Head(res).bestMove})

\* moves[move]
MoveCount(res, move) == Cardinality({i \in DOMAIN res : res[i].bestMove = move})

\* The loop over Object.entries(moves) that keeps the first strictly larger count.
RECURSIVE MostCommon(_, _, _, _, _)
MostCommon(res, keys, i, maxCount, consensus) ==
  IF i > Len(keys) THEN [maxCount |-> maxCount, consensus |-> consensus]
  ELSE IF MoveCount(res, keys[i]) > maxCount
    THEN MostCommon(res, keys, i + 1, MoveCount(res, keys[i]), keys[i])
    ELSE MostCommon(res, keys, i + 1, maxCount, consensus)

DivergenceOfUnique(uniqueMoves, size) == Div(uniqueMoves, size)

\* uniqueMoves > 1 ? (uniqueMoves - 1) / this.results.size : 0
DivergenceOf(uniqueMoves, size) ==
  IF uniqueMoves > 1 THEN Div(uniqueMoves - 1, size) ELSE [num |-> 0, den |-> 1]

\* consolidateResults()
ConsolidateResults(res) ==
  LET keys == MoveKeys(res, {})
      best == MostCommon(res, keys, 1, 0, "null")
  IN [engines |-> {res[i].name : i \in DOMAIN res},
      consensus |-> best.consensus,
      divergence |-> DivergenceOf(Len(keys), Len(res)),
      totalEngines |-> Len(res),
      uniqueMoves |-> Len(keys),
      consensusStrength |-> Div(best.maxCount, Len(res))]

NotDual == <<adapterVars, engineVars, managerVars, reported, switchVars, poolVars,
            histVars>>

\* analyzePosition after initialization: clear the results and start one
\* analyzeWithEngine unit per initialized engine.
StartUnits(engs) ==
  /\ results' = <<>>
  /\ units' = [l \in DualLabels |->
                 IF l \in {engs[i] : i \in DOMAIN engs} THEN "analysis" ELSE "none"]
  /\ unitMove' = [l \in DualLabels |-> "none"]
  /\ dualPc' = "analyzing"

\* A direct call of init().
DualInit ==
  /\ dualPc \in {"idle", "threw"} /\ ~isInitialized
  /\ dualPc' = "init" /\ dualOp' = "init" /\ initAt' = 1
  /\ UNCHANGED <<dualConfig, dualEngines, isInitialized, results, units, unitMove,
                 consolidated, nDual, NotDual>>

\* DualAnalysis.analyzePosition(), by a caller that awaits each call.
DualAnalyzePosition ==
  /\ dualPc \in {"idle", "returned", "threw"} /\ nDual < MaxDualCalls
  /\ nDual' = nDual + 1
  /\ IF ~isInitialized
       THEN /\ dualPc' = "init" /\ dualOp' = "analyze" /\ initAt' = 1
            /\ UNCHANGED <<results, units, unitMove>>
       ELSE /\ StartUnits(dualEngines)
            /\ dualOp' = "analyze"
            /\ UNCHANGED initAt
  /\ UNCHANGED <<dualConfig, dualEngines, isInitialized, consolidated, NotDual>>

\* The loop of init() after the engine at initAt has been tried: the next
\* label, or the end of the loop, where init() throws if no engine was
\* initialized and an awaiting analyzePosition goes on otherwise.
InitLoopNext(engs) ==
  IF initAt < Len(dualConfig)
    THEN /\ initAt' = initAt + 1
         /\ UNCHANGED <<isInitialized, dualPc, results, units, unitMove>>
    ELSE /\ initAt' = 0
         /\ IF engs = <<>>
              THEN /\ dualPc' = "threw"
                   /\ UNCHANGED <<isInitialized, results, units, unitMove>>
              ELSE /\ isInitialized' = TRUE
                   /\ IF dualOp = "analyze"
                        THEN StartUnits(engs)
                        ELSE /\ dualPc' = "idle"
                             /\ UNCHANGED <<results, units, unitMove>>

\* init(): manager.init() of the engine at initAt resolved.
DualInitOk ==
  /\ dualPc = "init"
  /\ dualEngines' = IF dualConfig[initAt] \in {dualEngines[i] : i \in DOMAIN dualEngines}
                      THEN dualEngines
                      ELSE Append(dualEngines, dualConfig[initAt])
  /\ InitLoopNext(dualEngines')
  /\ UNCHANGED <<dualConfig, dualOp, consolidated, nDual, NotDual>>

\* init(): initializing the engine at initAt failed; the error is logged.
DualInitFail ==
  /\ dualPc = "init"
  /\ InitLoopNext(dualEngines)
  /\ UNCHANGED <<dualConfig, dualEngines, dualOp, consolidated, nDual, NotDual>>

JoinEarly ==
  /\ consolidated' = ConsolidateResults(results')
  /\ dualPc' = IF \A l \in DualLabels : units'[l] \notin {"analysis", "candidates"}
                THEN "returned" ELSE dualPc

\* After a unit settled: when it was the last one, Promise.all resolves and
\* analyzePosition returns consolidateResults().
Join ==
  IF \A l \in DualLabels : units'[l] \notin {"analysis", "candidates"}
    THEN /\ consolidated' = ConsolidateResults(results')
         /\ dualPc' = "returned"
    ELSE UNCHANGED <<consolidated, dualPc>>

\* analyzeWithEngine: manager.analyzePosition resolved with a best move.
UnitAnalysisDone ==
  \E l \in DualLabels, m \in DualMoves :
    /\ units[l] = "analysis"
    /\ units' = [units EXCEPT ![l] = "candidates"]
    /\ unitMove' = [unitMove EXCEPT ![l] = m]
    /\ UNCHANGED <<dualConfig, dualEngines, isInitialized, results, dualPc, dualOp,
                   initAt, consolidated, nDual, NotDual>>

\* analyzeWithEngine: getCandidateMoves resolved; the result is stored.
UnitCandidatesDone ==
  \E l \in DualLabels :
    /\ units[l] = "candidates"
    /\ units' = [units EXCEPT ![l] = "ok"]
    /\ results' = Append(results, [name |-> l, bestMove |-> unitMove[l]])
    /\ Join
    /\ UNCHANGED <<dualConfig, dualEngines, isInitialized, dualOp, initAt, unitMove,
                   nDual, NotDual>>

\* analyzeWithEngine: one of its two awaits rejected; it returns null.
UnitFail ==
  \E l \in DualLabels :
    /\ units[l] \in {"analysis", "candidates"}
    /\ units' = [units EXCEPT ![l] = "failed"]
    /\ UNCHANGED results
    /\ Join
    /\ UNCHANGED <<dualConfig, dualEngines, isInitialized, dualOp, initAt, unitMove,
                   nDual, NotDual>>

DualStart ==
  /\ ManagerAlone /\ NoObjects /\ PoolIdle /\ HistIdle
  /\ \E cfg \in DualConfigs : DualConstructed(cfg)

DualNext ==
  \/ DualInit \/ DualAnalyzePosition \/ DualInitOk \/ DualInitFail
  \/ UnitAnalysisDone \/ UnitCandidatesDone \/ UnitFail

DualSpec == DualStart /\ [][DualNext]_vars

\* ------------------------------------------------------- repeated quit()
MaxQuits == 2

QuitGuardNone == TRUE

\* `if (this.process)` / `if (this.engine)` of the adapters' quit().
QuitGuard == process

\* The adapter's quit(), called in any state: it acts only on a live handle.
AdapterQuitAnyTime ==
  IF QuitGuard
    THEN /\ sent' = Append(sent, Cmd("quit", 0))
         /\ process' = FALSE
         /\ isReady' = FALSE
         /\ engQ' = <<>> /\ engOwes' = <<>> /\ engInfo' = 0
    ELSE UNCHANGED <<sent, process, isReady, engQ, engOwes, engInfo>>

\* quit() called on an adapter by its owner.
QuitCall ==
  /\ Len(quitCalls) < MaxQuits
  /\ AdapterQuitAnyTime
  /\ quitCalls' = Append(quitCalls, [by |-> "adapter", acted |-> QuitGuard,
                                     threw |-> FALSE])
  /\ UNCHANGED <<kind, isMaia, initPc, waiting, hsTimers, currentSearch, evaluation,
                 pvLines, wrapped, coll, promise, timers, nSearch, call,
                 chan, engMultiPV, managerVars, reported,
                 switchVars, poolVars, dualVars, histRest>>

\* EngineManager.quit(), called in any state.
MgrQuitCall ==
  /\ Len(quitCalls) < MaxQuits
  /\ IF currentEngine
       THEN /\ AdapterQuitAnyTime
            /\ currentEngine' = FALSE
            /\ mgrPhase' = "quit"
       ELSE UNCHANGED <<sent, process, isReady, engQ, engOwes, engInfo,
                        currentEngine, mgrPhase>>
  /\ quitCalls' = Append(quitCalls, [by |-> "manager",
                                     acted |-> currentEngine /\ QuitGuard,
                                     threw |-> FALSE])
  /\ UNCHANGED <<kind, isMaia, initPc, waiting, hsTimers, currentSearch, evaluation,
                 pvLines, wrapped, coll, promise, timers, nSearch, call,
                 chan, engMultiPV, engineType, analysisHistory, mgrRejected, nInits,
                 nAnalyses, nFailed, succLog, reported,
                 switchVars, poolVars, dualVars, histRest>>

\* An adapter used directly has no manager: engineType was never assigned.
Direct == engineType = "none"

DirectAdapterInit == Direct /\ AdapterInit

DirectQuitCall == Direct /\ QuitCall

OwnedMgrInit == ~Direct /\ MgrInit

OwnedMgrQuitCall == ~Direct /\ MgrQuitCall

QuitStart == Init \/ ManagerInit

QuitNext ==
  \/ DirectAdapterInit \/ DirectQuitCall \/ OwnedMgrInit \/ OwnedMgrQuitCall
  \/ EngineAck \/ DeliverAck \/ HandshakeTimeout

QuitSpec == QuitStart /\ [][QuitNext]_vars

\* ---------------------------------------------------- the bestmove line
\* The second word of a bestmove line, letter by letter.  "(none)" is what a
\* UCI engine prints for a position without legal moves.
Spell ==
  [t \in {"e2e4", "d2d4", "e7e8q", "(none)", "e2", "d2", "e7", "(n"} |->
     CASE t = "e2e4" -> <<"e", "2", "e", "4">>
       [] t = "d2d4" -> <<"d", "2", "d", "4">>
       [] t = "e7e8q" -> <<"e", "7", "e", "8", "q">>
       [] t = "(none)" -> <<"(", "n", "o", "n", "e", ")">>
       [] t = "e2" -> <<"e", "2">>
       [] t = "d2" -> <<"d", "2">>
       [] t = "e7" -> <<"e", "7">>
       [] t = "(n" -> <<"(", "n">>]

EngineWords == Moves \cup {"e7e8q", "(none)"}

\* The cut of a stdout chunk after n letters of the word (n at least the
\* word's length: no cut).
CutPoints == {2, 6}

\* data.toString().split('\n'): the line as handleEngineMessage receives it
\* when the chunk ends after n letters of word w; the rest of the line comes
\* with the next chunk and starts with neither bestmove nor info.
FirstChunkWord(w, n) ==
  IF n >= Len(Spell[w]) THEN w
  ELSE CHOOSE t \in DOMAIN Spell : Spell[t] = SubSeq(Spell[w], 1, n)

\* The engine prints `bestmove <word>`; the process adapters read it from the
\* pipe in chunks, StockfishEngine gets whole lines from print.
EngineBestmoveWord ==
  /\ engQ # <<>> /\ Len(chan) < MaxChan
  /\ \E w \in EngineWords, n \in CutPoints :
       /\ kind = "wasm" => n >= Len(Spell[w])
       /\ chan' = Append(chan, BestmoveLine(FirstChunkWord(w, n), Head(engQ)))
  /\ engQ' = Tail(engQ)
  /\ engInfo' = 0
  /\ UNCHANGED <<sent, engOwes, engMultiPV, adapterVars, managerVars, reported>>
  /\ UNCHANGED extVars

MoveNext ==
  \/ MgrInit \/ MgrAnalyze \/ EngineAck \/ DeliverAck
  \/ EngineBestmoveWord \/ DeliverBestmove \/ SearchTimeout

MoveSpec == ManagerInit /\ [][MoveNext]_vars

\* ------------------------------------------------ handshake, any engine
\* An engine that prints uciok and readyok lines whenever it likes, asked
\* for or not.
EngineAnyAck ==
  /\ process /\ Len(chan) < MaxChan
  /\ \E a \in Acks : chan' = Append(chan, AckLine(a))
  /\ UNCHANGED <<sent, engQ, engOwes, engMultiPV, engInfo, adapterVars, managerVars,
                 reported>>
  /\ UNCHANGED extVars

HandshakeNext ==
  \/ AdapterInit \/ EngineAnyAck \/ DeliverAck \/ HandshakeTimeout \/ Quit

HandshakeSpec == Init /\ [][HandshakeNext]_vars

\* ------------------------------------------------- the order of commands
\* Two positions, so that a go can follow the position command of the other.
OrderFens == {1, 2}

OrderAnalyze == MgrAnalyzeOf(OrderFens)

OrderCandidates == MgrCandidatesOf(OrderFens)

OrderNext ==
  \/ MgrInit \/ OrderAnalyze \/ OrderCandidates
  \/ EngineAck \/ DeliverAck \/ EngineBestmove \/ DeliverBestmove \/ SearchTimeout

OrderSpec == ManagerInit /\ [][OrderNext]_vars

\* ------------------------------------------------- the budget of a search
MaxBudget == 2

\* `options.x || this.config.x || <literal>` with no config entry.
DefaultBudget ==
  [asm  |-> [time |-> 2000, nodes |-> 0, depth |-> 15],
   wasm |-> [time |-> 2000, nodes |-> 0, depth |-> 15],
   lc0  |-> [time |-> 5000, nodes |-> 10000, depth |-> 20]]

Given(v, default) == IF v # 0 THEN v ELSE default

GoBudgetTimeNodesDepth(k, maia, o) ==
  IF o.time # 0 THEN [unit |-> "movetime", value |-> o.time]
  ELSE IF o.nodes # 0 THEN [unit |-> "nodes", value |-> o.nodes]
  ELSE [unit |-> "depth", value |-> Given(o.depth, DefaultBudget[k].depth)]

\* The go command getBestMove builds on adapter k for options o.
GoBudget(k, maia, o) ==
  LET nodes == Given(o.nodes, DefaultBudget[k].nodes)
      timeLimit == Given(o.time, DefaultBudget[k].time)
      depth == Given(o.depth, DefaultBudget[k].depth)
  IN IF k = "lc0"
       THEN IF maia /\ nodes # 0 THEN [unit |-> "nodes", value |-> nodes]
            ELSE IF o.time # 0 THEN [unit |-> "movetime", value |-> timeLimit]
            ELSE IF o.nodes # 0 THEN [unit |-> "nodes", value |-> nodes]
            ELSE [unit |-> "depth", value |-> depth]
       ELSE IF o.time # 0 THEN [unit |-> "movetime", value |-> timeLimit]
            ELSE [unit |-> "depth", value |-> depth]

\* A caller's getBestMove(options), reduced to the go command it writes.
BuildGo ==
  /\ \E t, n, d \in 0..MaxBudget :
       /\ goOpts' = [time |-> t, nodes |-> n, depth |-> d]
       /\ goCmd' = GoBudget(kind, isMaia, goOpts')
  /\ UNCHANGED <<adapterVars, engineVars, managerVars, reported,
                 switchVars, poolVars, dualVars, quitCalls, autoVars, selVars, lateVars,
                 stream, written, handled, hostExited>>

BudgetSpec == Init /\ [][BuildGo]_vars

\* ------------------------------------------------- the engine's stdout
MaxLines == 2

\* What the engine may print as one line, letter by letter; "nl" is '\n'.
EngineLines == {<<"a", "b">>, <<"b">>, <<>>}

\* chunk.split('\n')
RECURSIVE SplitNl(_, _)
SplitNl(s, cur) ==
  IF s = <<>> THEN <<cur>>
  ELSE IF Head(s) = "nl" THEN <<cur>> \o SplitNl(Tail(s), <<>>)
  ELSE SplitNl(Tail(s), Append(cur, Head(s)))

NonBlank(l) == l # <<>>

\* data.toString().split('\n').filter((line) => line.trim())
ChunkLines(chunk) == SelectSeq(SplitNl(chunk, <<>>), NonBlank)

\* The engine prints one line and its newline.
EngineWriteLine ==
  /\ Len(written) < MaxLines /\ Len(stream) < 3 * MaxLines
  /\ \E l \in EngineLines :
       /\ stream' = stream \o l \o <<"nl">>
       /\ written' = IF NonBlank(l) THEN Append(written, l) ELSE written
  /\ UNCHANGED <<adapterVars, engineVars, managerVars, reported,
                 switchVars, poolVars, dualVars, quitCalls, autoVars, selVars, lateVars, goOpts, goCmd, handled,
                 hostExited>>

\* process.stdout 'data': the first n letters in the pipe arrive as one chunk.
StdoutData ==
  /\ \E n \in 1..Len(stream) :
       /\ handled' = handled \o ChunkLines(SubSeq(stream, 1, n))
       /\ stream' = SubSeq(stream, n + 1, Len(stream))
  /\ UNCHANGED <<adapterVars, engineVars, managerVars, reported,
                 switchVars, poolVars, dualVars, quitCalls, autoVars, selVars, lateVars, goOpts, goCmd, written,
                 hostExited>>

StreamNext == EngineWriteLine \/ StdoutData

StreamSpec == Init /\ [][StreamNext]_vars

\* ----------------------------------------------- a binary that is missing
\* The child process's 'error' event after a failed spawn: nothing was ever
\* read from the engine.  The listener rethrows inside the event callback,
\* which no promise or try block encloses, so the exception reaches the
\* host's uncaughtException handler, and that one exits.
SpawnFailed ==
  /\ kind \in {"asm", "lc0"} /\ process
  /\ initPc = "uciok" /\ engOwes = <<"uciok">> /\ chan = <<>>

ProcessError ==
  /\ SpawnFailed
  /\ hostExited' = TRUE
  /\ engOwes' = <<>>
  /\ UNCHANGED <<sent, engQ, engMultiPV, engInfo, chan, adapterVars, managerVars,
                 reported, switchVars, poolVars, dualVars, quitCalls, autoVars, selVars, lateVars,
                 goOpts, goCmd, stream, written, handled>>

\* Nothing runs in a host that has exited.
LaunchNext ==
  \/ ~hostExited /\ DirectAdapterInit
  \/ ~hostExited /\ DirectQuitCall
  \/ ~hostExited /\ OwnedMgrInit
  \/ ~hostExited /\ OwnedMgrQuitCall
  \/ ~hostExited /\ EngineAck
  \/ ~hostExited /\ DeliverAck
  \/ ~hostExited /\ HandshakeTimeout
  \/ ~hostExited /\ ProcessError

LaunchSpec == QuitStart /\ [][LaunchNext]_vars

\* --------------------------------------------- info lines without a score
\* parseInfoMessage applied to a line with neither score nor pv, such as
\* `info depth 12 currmove e2e4 currmovenumber 1` or `info string ...`.
ParseBareLine ==
  /\ HandleInfo(InfoLine(0, "none", <<"none", 0>>, 0))
  /\ UNCHANGED <<kind, isMaia, process, isReady, initPc, waiting, hsTimers,
                 currentSearch, wrapped, promise, timers, nSearch, call,
                 engineVars, managerVars>>
  /\ UNCHANGED extVars

EvalNext == ParseLine \/ ParseBareLine

EvalSpec == Init /\ [][EvalNext]_vars

\* ------------------------------------------- the configured engine types
\* ENGINES_CONFIG[id].type; every identifier has enabled: true.
EngineTypeOf(id) ==
  IF id \in {"stockfish-native-max", "stockfish-native-17", "stockfish-native-12",
             "stockfish-native"}
    THEN "stockfish-native"
    ELSE "lc0"

ConfiguredTypes == {EngineTypeOf(id) : id \in EngineIds}

\* new EngineManager({engine: type, ...}).init(), as initializeEngine and
\* DualAnalysis.init call it for a configured identifier, or as the program
\* calls it with one of ENGINE_TYPES.
ConfigInit == MgrInitOf(ConfiguredTypes \cup EngineTypes)

ConfigNext ==
  \/ ConfigInit \/ MgrAnalyze \/ EngineAck \/ DeliverAck \/ HandshakeTimeout
  \/ EngineBestmove \/ DeliverBestmove \/ SearchTimeout

ConfigSpec == ManagerInit /\ [][ConfigNext]_vars

\* ------------------------------------------------ ChessAutomation auto-play
MaxPos == 2
MaxMoves == 2
MaxLoops == 2

Positions == 1..MaxPos

\* How a makeMove call ends: the move was executed, the analysis threw, or
\* executeMove returned false.
MakeMoveOutcomes == {"moved", "threw", "notExecuted"}

autoRest == <<adapterVars, engineVars, managerVars, reported, switchVars, poolVars,
              dualVars, quitCalls, goOpts, goCmd, stream, written, handled, hostExited,
              selVars, lateVars>>

\* startAutoPlay: returns at once when already playing.
StartAutoPlay ==
  /\ ~isPlaying
  /\ loops < MaxLoops
  /\ isPlaying' = TRUE
  /\ loops' = loops + 1
  /\ UNCHANGED <<gsFen, board, ourTurn, mmCalls, lastIter, autoRest>>

StopAutoPlay ==
  /\ isPlaying
  /\ isPlaying' = FALSE
  /\ UNCHANGED <<loops, gsFen, board, ourTurn, mmCalls, lastIter, autoRest>>

\* The loop's test: the extracted position differs from gameState.fen.
PositionChangedAlways(fen) == TRUE

PositionChanged(fen) == fen # gsFen

\* One pass of the while loop. isOurTurn and extractFEN read the page or throw;
\* makeMove stores the position in gameState.fen before it analyses.
LoopPass ==
  /\ loops > 0
  /\ isPlaying
  /\ \E turnThrows \in BOOLEAN, fenThrows \in BOOLEAN, out \in MakeMoveOutcomes :
       LET fen == board
           iter == IF turnThrows THEN "turnThrew"
                   ELSE IF ~ourTurn THEN "notOurTurn"
                   ELSE IF fenThrows THEN "fenThrew"
                   ELSE IF ~PositionChanged(fen) THEN "same"
                   ELSE out
       IN /\ lastIter' = iter
          /\ IF iter \in MakeMoveOutcomes
               THEN /\ Len(mmCalls) < MaxMoves
                    /\ gsFen' = fen
                    /\ mmCalls' = Append(mmCalls, [fen |-> fen, out |-> out])
               ELSE UNCHANGED <<gsFen, mmCalls>>
  /\ UNCHANGED <<isPlaying, loops, board, ourTurn, autoRest>>

\* The while test fails: startAutoPlay returns.
LoopReturn ==
  /\ loops > 0
  /\ ~isPlaying
  /\ loops' = loops - 1
  /\ UNCHANGED <<isPlaying, gsFen, board, ourTurn, mmCalls, lastIter, autoRest>>

\* The page: a move is played on the board, or the turn passes.
PageChange ==
  /\ \E b \in Positions, t \in BOOLEAN :
       /\ <<b, t>> # <<board, ourTurn>>
       /\ board' = b
       /\ ourTurn' = t
  /\ UNCHANGED <<isPlaying, loops, gsFen, mmCalls, lastIter, autoRest>>

AutoNext == StartAutoPlay \/ StopAutoPlay \/ LoopPass \/ LoopReturn \/ PageChange

AutoSpec == Init /\ [][AutoNext]_vars

\* ------------------------- EnginePoolManager: selection, whole calls, cleanup
\* The enabled flags a configuration is edited to.
DisabledSets == {{}, {"maia-1500"}}

selRest == <<adapterVars, engineVars, managerVars, reported, switchVars, dualVars,
             quitCalls, goOpts, goCmd, stream, written, handled, hostExited,
             autoVars, lateVars, disabled, poolConfig, moveCount>>

\* initializeEngine for a disabled identifier warns and returns with nothing
\* cached; its caller then makes the identifier current.
SkipDisabled(id, rec, list) ==
  /\ currentEngineId' = id
  /\ poolCurrent' = "undefined"
  /\ pcalls' = Append(pcalls, [rec EXCEPT !.sel = id, !.pc = "done"])
  /\ poolEngines' = list
  /\ UNCHANGED engines

\* `if (!this.engines.has(id)) await this.initializeEngine(id)` and the two
\* assignments after it, for a caller that awaits the call: list is the pool
\* list as the caller has set it.
InitThenMakeCurrent(id, rec, list) ==
  IF id \in engines
    THEN /\ currentEngineId' = id
         /\ poolCurrent' = id
         /\ pcalls' = Append(pcalls, [rec EXCEPT !.sel = id, !.pc = "done"])
         /\ poolEngines' = list
         /\ UNCHANGED engines
  ELSE IF id \notin EngineIds
    THEN /\ pcalls' = Append(pcalls, [rec EXCEPT !.sel = id, !.pc = "failed",
                                        !.err = "Engine configuration not found"])
         /\ poolEngines' = list
         /\ UNCHANGED <<engines, currentEngineId, poolCurrent>>
  ELSE IF id \in disabled
    THEN SkipDisabled(id, rec, list)
  ELSE \/ /\ engines' = engines \cup {id}
          /\ currentEngineId' = id
          /\ poolCurrent' = id
          /\ pcalls' = Append(pcalls, [rec EXCEPT !.sel = id, !.pc = "done"])
          /\ poolEngines' = list
       \/ /\ poolEngines' = Without(list, id)
          /\ pcalls' = Append(pcalls, [rec EXCEPT !.sel = id, !.pc = "failed",
                                         !.err = "init failed",
                                         !.poolLeft = Len(Without(list, id))])
          /\ UNCHANGED <<engines, currentEngineId, poolCurrent>>

\* init(), awaited, made once.
WholePoolInit ==
  /\ Len(pcalls) < MaxPoolCalls
  /\ \A c \in DOMAIN pcalls : pcalls[c].op # "init"
  /\ LET list == GetEnginePool(poolConfig.pool) IN
     IF list = <<>>
       THEN /\ pcalls' = Append(pcalls, [NewCall("init") EXCEPT !.pc = "failed",
                                           !.err = "No engines defined in pool"])
            /\ poolEngines' = list
            /\ UNCHANGED <<poolIndex, selLog, engines, currentEngineId, poolCurrent>>
       ELSE \E p \in Picks(list) :
              /\ poolIndex' = p.next
              /\ selLog' = Append(selLog, [id |-> p.id, pool |-> list])
              /\ InitThenMakeCurrent(p.id, NewCall("init"), list)
  /\ UNCHANGED selRest

\* selectAndInitEngine(), awaited.
WholeSelectAndInitEngine ==
  /\ Len(pcalls) < MaxPoolCalls
  /\ \E c \in DOMAIN pcalls : pcalls[c].op = "init"
  /\ \E p \in Picks(poolEngines) :
       /\ poolIndex' = p.next
       /\ selLog' = Append(selLog, [id |-> p.id, pool |-> poolEngines])
       /\ InitThenMakeCurrent(p.id, NewCall("select"), poolEngines)
  /\ UNCHANGED selRest

\* switchToEngine(engineId), awaited.
WholeSwitchToEngine ==
  /\ Len(pcalls) < MaxPoolCalls
  /\ \E id \in SwitchTargets :
       IF id \notin EngineIds
         THEN /\ pcalls' = Append(pcalls, [NewCall("switchTo") EXCEPT !.target = id,
                                             !.pc = "failed", !.err = "Unknown engine"])
              /\ UNCHANGED <<poolEngines, engines, currentEngineId, poolCurrent>>
         ELSE InitThenMakeCurrent(id, [NewCall("switchTo") EXCEPT !.target = id],
                                  poolEngines)
  /\ UNCHANGED <<poolIndex, selLog, selRest>>

\* cleanup(), awaited: every cached manager is quit, then the cache and the
\* selection are cleared.
PoolCleanup ==
  /\ Len(pcalls) < MaxPoolCalls
  /\ engines' = {}
  /\ poolCurrent' = "null"
  /\ currentEngineId' = "null"
  /\ pcalls' = Append(pcalls, [NewCall("cleanup") EXCEPT !.pc = "done"])
  /\ UNCHANGED <<poolEngines, poolIndex, selLog, selRest>>

\* A pool manager constructed under a configuration with some identifiers
\* disabled.
SelectStart ==
  /\ ManagerAlone /\ NoObjects /\ DualIdle /\ HistQuiet
  /\ disabled \in DisabledSets
  /\ \E cfg \in PoolConfigs : PoolConstructed(cfg)

SelectNext ==
  \/ WholePoolInit \/ WholeSelectAndInitEngine \/ WholeSwitchToEngine \/ PoolCleanup

SelectSpec == SelectStart /\ [][SelectNext]_vars

\* ---------------------------------- EnginePoolManager.selectWeightedEngine
MaxWeight == 2

\* The pool lists drawn from, of two and of three identifiers.
WeightedPools == {GetEnginePool("test"), GetEnginePool("maia")}

RECURSIVE SumTo(_, _)
\* weights[0] + ... + weights[i - 1]
SumTo(weights, i) == IF i = 0 THEN 0 ELSE SumTo(weights, i - 1) + weights[i]

\* config.weights.reduce((sum, weight) => sum + weight, 0)
TotalWeight(weights) == SumTo(weights, Len(weights))

\* config.weights: null (the empty list here), of another length than the
\* pool, or one non-negative integer per pool member.
WeightLists(n) ==
  {<<>>, <<1>>} \cup {w \in [1..n -> 0..MaxWeight] : TotalWeight(w) > 0}

\* The for loop from index i (counted from 1) with `random` left, in halves:
\* subtract the weight, return at the first index where nothing is left.
RECURSIVE WeightedFrom(_, _, _, _)
WeightedFrom(arr, weights, i, random2) ==
  IF i > Len(arr) THEN Len(arr)
  ELSE LET left == random2 - 2 * weights[i] IN
       IF left <= 0 THEN i ELSE WeightedFrom(arr, weights, i + 1, left)

\* selectWeightedEngine over pool list arr, for Math.random() * totalWeight
\* = r2 / 2: the indices (from 1) it can return.  Without usable weights it
\* is selectRandomEngine.
WeightedIndices(arr, weights, r2) ==
  IF weights = <<>> \/ Len(weights) # Len(arr) THEN DOMAIN arr
  ELSE {WeightedFrom(arr, weights, 1, r2)}

\* The samples Math.random() * totalWeight, in halves: 0 <= r2 / 2 < total.
Samples(weights) == 0..(2 * TotalWeight(weights) - 1)

DrawWeighted ==
  /\ \E arr \in WeightedPools :
       \E weights \in WeightLists(Len(arr)) :
         \E r2 \in Samples(weights), i \in DOMAIN arr :
           /\ i \in WeightedIndices(arr, weights, r2)
           /\ draw' = [pool |-> arr, weights |-> weights, r2 |-> r2, idx |-> i]
  /\ UNCHANGED <<adapterVars, engineVars, managerVars, reported, switchVars, poolVars,
                 dualVars, quitCalls, goOpts, goCmd, stream, written, handled,
                 hostExited, autoVars, selVars, early>>

WeightSpec == Init /\ [][DrawWeighted]_vars

\* ------------------------------------ handshake with an in-process engine
\* init() of the in-process adapter when the engine prints uciok inside
\* postMessage('uci'), before `await this.sendCommand('uci')` has returned:
\* handleEngineMessage finds no handler for it and deletes the key; only then
\* does waitForMessage register its handler and start its timer.
AdapterInitEarlyAnswer ==
  /\ kind = "wasm"
  /\ initPc = "new"
  /\ process' = TRUE
  /\ initPc' = "uciok"
  /\ waiting' = waiting \cup {"uciok"}
  /\ hsTimers' = hsTimers \cup {"uciok"}
  /\ sent' = Append(sent, Cmd("uci", 0))
  /\ early' = early \cup {"uciok"}
  /\ UNCHANGED <<kind, isMaia, isReady, currentSearch, evaluation, pvLines, wrapped,
                 coll, promise, timers, nSearch, call, chan, engQ, engOwes, engMultiPV,
                 engInfo, managerVars, reported, switchVars, poolVars, dualVars,
                 quitCalls, goOpts, goCmd, stream, written, handled, hostExited,
                 autoVars, selVars, draw>>

\* The uciok line resumes init(), which sends the options and isready; the
\* in-process engine prints readyok inside postMessage('isready'), again
\* before waitForMessage('readyok') has registered its handler.
DeliverAckEarlyReady ==
  /\ kind = "wasm"
  /\ chan # <<>> /\ Head(chan).t = "uciok"
  /\ "uciok" \in waiting /\ initPc = "uciok" /\ process
  /\ chan' = Tail(chan)
  /\ waiting' = (waiting \ {"uciok"}) \cup {"readyok"}
  /\ hsTimers' = (hsTimers \ {"uciok"}) \cup {"readyok"}
  /\ sent' = (IF ConfigMultiPV > 0
               THEN Append(sent, Cmd("setoption", ConfigMultiPV))
               ELSE sent) \o <<Cmd("isready", 0)>>
  /\ engMultiPV' = IF ConfigMultiPV > 0 THEN ConfigMultiPV ELSE engMultiPV
  /\ initPc' = "readyok"
  /\ early' = early \cup {"readyok"}
  /\ UNCHANGED <<kind, isMaia, process, isReady, currentSearch, evaluation, pvLines,
                 wrapped, coll, promise, timers, nSearch, call, engQ, engOwes, engInfo,
                 managerVars, reported, switchVars, poolVars, dualVars,
                 quitCalls, goOpts, goCmd, stream, written, handled, hostExited,
                 autoVars, selVars, draw>>

InProcNext ==
  \/ AdapterInit \/ AdapterInitEarlyAnswer \/ EngineAck \/ EngineAnyAck
  \/ DeliverAck \/ DeliverAckEarlyReady \/ HandshakeTimeout \/ Quit

InProcSpec == Init /\ [][InProcNext]_vars

\* ------------------------------------------------------------------ claims
SentCommands == {sent[i] : i \in 1..Len(sent)}

RECURSIVE AscendingSeq(_, _)
AscendingSeq(S, i) ==
  IF i > MaxCount THEN <<>>
  ELSE (IF i \in S THEN <<i>> ELSE <<>>) \o AscendingSeq(S, i + 1)

IdxOf(list) == [i \in 1..Len(list) |-> list[i].idx]

\* C1: a getBestMove called while an earlier one on the same adapter is still
\* pending fails at once, and leaves the slot and the pending promise alone.
C1_SecondSearchFailsFast ==
  [][\A s \in SearchIds :
       (/\ promise[s].st = "none"
        /\ promise'[s].st # "none"
        /\ \E t \in SearchIds : promise[t].st = "pending")
       => /\ promise'[s].st = "rejected"
          /\ currentSearch' = currentSearch
          /\ \A t \in SearchIds : promise[t].st = "pending" => promise'[t] = promise[t]]_vars

\* C2: every search of a sequential caller eventually settles (resolved by a
\* bestmove line or rejected by the timeout); none stays pending forever.
C2_EverySearchSettles ==
  \A s \in SearchIds : (promise[s].st = "pending") ~> (promise[s].st # "pending")

\* C3: the step in which a timeout rejects a search leaves isReady, the process
\* handle and init() untouched and the slot free; a getBestMove issued once a
\* search was rejected is accepted, occupies the slot and writes its go command.
C3_TimeoutKeepsAdapterUsable ==
  [][/\ (\E s \in SearchIds : promise[s].st = "pending" /\ promise'[s].st = "rejected")
        => /\ isReady' = isReady /\ process' = process /\ initPc' = initPc
           /\ currentSearch' = 0
     /\ (/\ \E t \in SearchIds : promise[t].st = "rejected"
         /\ nSearch' = nSearch + 1
         /\ process)
        => /\ promise'[nSearch'].st = "pending"
           /\ currentSearch' = nSearch'
           /\ sent'[Len(sent')] = Cmd("go", nSearch')
           /\ isReady' /\ initPc' = initPc]_vars

\* A search was rejected by its timeout and a later one, started afterwards on
\* the still ready adapter, is pending with its go command written.
C3_Witness ==
  \E t, s \in SearchIds :
    /\ t < s
    /\ promise[t].st = "rejected"
    /\ promise[s].st = "pending" /\ currentSearch = s
    /\ isReady /\ initPc = "done"
    /\ Cmd("go", s) \in SentCommands

\* C4: a search resolves only with the bestmove line that answers its own go
\* command, and the evaluation it returns was parsed from an info line of that
\* same search.
C4_ResolvesWithOwnOutput ==
  \A s \in SearchIds :
    promise[s].st = "resolved"
      => /\ promise[s].from = s
         /\ promise[s].ev.set => promise[s].ev.from = s

\* C5: a finished getCandidateMoves(count) returns exactly the variation
\* indices in 1..count that were reported with a pv during its search, in
\* ascending order (the multi-variation path; Maia's single record aside).
C5_CandidatesAreReportedIndices ==
  \A s \in SearchIds :
    (call[s].op = "getCandidateMoves" /\ call[s].st = "ok" /\ ~MaiaSinglePv)
      => IdxOf(call[s].list) = AscendingSeq(reported[s] \cap (1..call[s].count), 1)

\* C6: the list of a finished EngineManager.getCandidateMoves(P, k) has at most
\* k entries, its rank fields are 1, 2, ..., n in list order, and no move
\* occurs in it twice.
C6_ManagerListRanked ==
  \A s \in SearchIds :
    (call[s].op = "mgrCandidates" /\ call[s].st = "ok")
      => LET l == call[s].list IN
         /\ Len(l) <= call[s].count
         /\ \A i \in 1..Len(l) : l[i].rank = i
         /\ \A i, j \in 1..Len(l) : l[i].move = l[j].move => i = j

\* The engine reported two variations while the manager asked for two
\* candidates, and the call returned a non-empty list.
C6_Witness ==
  \E s \in SearchIds :
    /\ call[s].op = "mgrCandidates" /\ call[s].st = "ok" /\ call[s].count = 2
    /\ reported[s] = {1, 2}
    /\ Len(call[s].list) > 0

\* C7: on one adapter and one position, analyzePosition(P) followed at once by
\* getCandidateMoves(P, 1), each resolved by its own bestmove line naming the
\* same move, gives exactly one candidate and its move is analyzePosition's
\* bestMove.
C7_SingleCandidateIsBestMove ==
  \A s, t \in SearchIds :
    (/\ t = s + 1
     /\ call[s].op = "analyzePosition" /\ call[s].st = "ok"
     /\ call[t].op = "mgrCandidates" /\ call[t].st = "ok" /\ call[t].count = 1
     /\ call[s].fen = call[t].fen /\ call[s].epoch = call[t].epoch
     /\ promise[s].from = s /\ promise[t].from = t
     /\ promise[s].move = promise[t].move)
      => /\ Len(call[t].list) = 1
         /\ call[t].list[1].move = call[s].bestMove

\* C10: while the manager has no initialised engine (init not called or not
\* finished, init failed, or quit was called) no analysis call starts a search,
\* and the step that refuses a call writes no command.
C10_NotReadyCallsRefused ==
  [][(mgrPhase \in {"new", "initializing", "failed", "quit"})
       => (/\ nSearch' = nSearch
           /\ (mgrRejected' # mgrRejected => sent' = sent))]_vars

\* An analysis call was refused before init was ever called, and no command
\* has been written.
C10_Witness == mgrPhase = "new" /\ mgrRejected > 0 /\ sent = <<>>

\* C8: of two info lines parsed one after the other, a mate in n scores above
\* a mate in m > n > 0 and above any centipawn score; a mated-in-n scores below
\* a mated-in-m > n and below any centipawn score.
C8_MateScoresOrdered ==
  [][LET a == evaluation
         b == evaluation'
     IN (a.set /\ b.set /\ a.stype = "mate") =>
          /\ (b.stype = "mate" /\ 0 < a.mate /\ a.mate < b.mate) => a.score > b.score
          /\ (b.stype = "cp" /\ 0 < a.mate) => a.score > b.score
          /\ (b.stype = "mate" /\ 0 < -a.mate /\ -a.mate < -b.mate) => a.score < b.score
          /\ (b.stype = "cp" /\ a.mate < 0) => a.score < b.score]_vars

LastOf(s, n) == IF Len(s) > n THEN SubSeq(s, Len(s) - n + 1, Len(s)) ELSE s

\* C9: analysisHistory never holds more than 100 entries, and it is the last
\* (at most 100) successful analyses in call order; failed analyses are absent.
C9_HistoryIsRecentSuccesses ==
  /\ Len(analysisHistory) <= HistoryCapacity
  /\ analysisHistory = LastOf(succLog, HistoryCapacity)

\* More successful analyses than the buffer holds, with a failed one among the
\* calls: the oldest entries are gone and the failed call left no entry.
C9_Witness ==
  /\ Len(succLog) > HistoryCapacity
  /\ nFailed > 0
  /\ Len(analysisHistory) = HistoryCapacity
  /\ analysisHistory[1].seq > 1

AliveObjs == {i \in DOMAIN objs : objs[i].eng = "alive"}

\* C11: two adapters started by the same EngineManager are never alive
\* together.
C11_AtMostOneAdapterAlive == Cardinality(AliveObjs) <= 1

\* moveCount is a positive multiple of a positive switchEvery under a strategy
\* other than single.
SwitchDue ==
  /\ poolConfig.selection # "single"
  /\ poolConfig.switchEvery > 0
  /\ \E k \in 1..moveCount : moveCount = k * poolConfig.switchEvery

LastCall(log) == log[Len(log)]

\* C12: an accepted analyzePosition call selects a new engine exactly when the
\* strategy is not single, switchEvery is positive and moveCount is a positive
\* multiple of switchEvery; and a call that selected is served by the engine
\* it selected.
C12_SwitchBeforeServe ==
  /\ [][(/\ Len(pcalls') = Len(pcalls) + 1
         /\ LastCall(pcalls').op = "analyze"
         /\ currentEngineId # "null")
        => (LastCall(pcalls').switched <=> SwitchDue)]_vars
  /\ [](\A c \in DOMAIN pcalls :
          (pcalls[c].switched /\ pcalls[c].served # "none")
            => pcalls[c].served = pcalls[c].sel)

\* A request that triggered a switch to an engine other than the one that
\* served the request before it, and was served and stamped by the new one.
C12_Witness ==
  \E c \in DOMAIN pcalls, b \in DOMAIN pcalls :
    /\ b < c
    /\ pcalls[b].op = "analyze" /\ pcalls[b].pc = "done"
    /\ pcalls[c].switched /\ pcalls[c].pc = "done"
    /\ pcalls[c].served = pcalls[c].sel
    /\ pcalls[c].served # pcalls[b].served
    /\ poolConfig.switchEvery = 2

\* The N selections selLog[k..k+N-1] are a rotation of the pool list P.
IsRotation(k, P) ==
  \E r \in 0..(Len(P) - 1) :
    \A j \in 0..(Len(P) - 1) : selLog[k + j].id = P[((r + j) % Len(P)) + 1]

\* C13: under the sequential strategy, any N consecutive selections made over
\* one pool list of N identifiers visit its entries once each, in pool order,
\* wrapping to the first.
C13_SequentialRoundRobin ==
  poolConfig.selection = "sequential" =>
    \A k \in DOMAIN selLog :
      LET P == selLog[k].pool IN
      (/\ P # <<>>
       /\ k + Len(P) - 1 <= Len(selLog)
       /\ \A j \in 0..(Len(P) - 1) : selLog[k + j].pool = P)
        => IsRotation(k, P)

Elems(arr) == {arr[i] : i \in DOMAIN arr}

SelectionOps == {"init", "select", "analyze"}

\* Identifiers whose initialization has failed during a selection step.
FailedIds ==
  {pcalls[c].sel : c \in {d \in DOMAIN pcalls : /\ pcalls[d].err = "init failed"
                                                /\ pcalls[d].op \in SelectionOps}}

Occurrences(arr, id) == Cardinality({i \in DOMAIN arr : arr[i] = id})

\* C14: when the initialization of id fails, that step removes every
\* occurrence of id from poolEngines, creates no cache entry and fails the
\* call that triggered it; id stays out of poolEngines and no later selection
\* by strategy picks it.
C14_FailedIdLeavesPool ==
  /\ [][\A c \in DOMAIN pcalls :
          (/\ pcalls[c].op \in SelectionOps
           /\ pcalls[c].pc = "initEngine" /\ pcalls'[c].pc = "failed")
            => /\ pcalls[c].sel \notin Elems(poolEngines')
               /\ engines' = engines
               /\ pcalls[c].sel \notin engines'
               /\ pcalls'[c].err = "init failed"]_vars
  /\ [](\A id \in FailedIds : id \notin Elems(poolEngines))
  /\ [][Len(selLog') > Len(selLog)
          => selLog'[Len(selLog')].id \notin FailedIds]_vars

\* An identifier listed twice in its pool failed to initialize during a
\* selection step, and a later selection was made.
C14_Witness ==
  \E c \in DOMAIN pcalls :
    /\ pcalls[c].err = "init failed"
    /\ pcalls[c].op \in SelectionOps
    /\ Occurrences(GetEnginePool(poolConfig.pool), pcalls[c].sel) = 2
    /\ \E d \in DOMAIN pcalls : d > c /\ pcalls[d].sel \notin {"none", "undefined"}
                                      /\ pcalls[d].op = "select"

\* C15 as stated: an initialization failure reaches the caller only when no
\* pool member is left after it.
C15_FailsOnlyWhenPoolExhausted ==
  \A c \in DOMAIN pcalls :
    pcalls[c].err = "init failed" => pcalls[c].poolLeft = 0

\* C15, amended: whenever manager.init() of a pool member rejects (the engine
\* is not cached when the wait ends), the call that triggered the
\* initialization fails with that error, whether or not members remain.
C15_InitFailureAlwaysPropagates ==
  [][\A c \in DOMAIN pcalls :
       (/\ pcalls[c].pc = "initEngine" /\ pcalls'[c].pc # "initEngine"
        /\ pcalls[c].sel \notin engines')
         => (pcalls'[c].pc = "failed" /\ pcalls'[c].err = "init failed")]_vars

\* A call failed on an initialization error while other pool members remained.
C15_Witness ==
  \E c \in DOMAIN pcalls :
    /\ pcalls[c].err = "init failed" /\ pcalls[c].pc = "failed"
    /\ pcalls[c].op \in SelectionOps
    /\ pcalls[c].poolLeft > 0
    /\ poolEngines # <<>>

\* C16: the engineId and engineName stamped on a result are those of the
\* engine that ran the search for that result.
C16_StampNamesSearchingEngine ==
  \A c \in DOMAIN pcalls :
    (pcalls[c].op = "analyze" /\ pcalls[c].pc = "done")
      => /\ pcalls[c].stampId = pcalls[c].served
         /\ pcalls[c].stampName = EngineName(pcalls[c].served)

\* switchToEngine with an identifier absent from the configuration fails and
\* leaves the current selection as it was.
UnknownSwitchRefused ==
  [][(/\ Len(pcalls') = Len(pcalls) + 1
      /\ LastCall(pcalls').op = "switchTo"
      /\ LastCall(pcalls').target \notin EngineIds)
     => (/\ LastCall(pcalls').pc = "failed"
         /\ LastCall(pcalls').err = "Unknown engine"
         /\ currentEngineId' = currentEngineId
         /\ engines' = engines)]_vars

\* C17 as stated: init() with a pool name that is not configured fails and
\* selects no engine; switchToEngine with an unknown identifier fails and
\* leaves the selection unchanged.
C17_UnknownPoolFails ==
  /\ [](poolConfig.pool \notin PoolNames =>
          \A c \in DOMAIN pcalls :
            pcalls[c].op = "init" => (pcalls[c].pc = "failed" /\ pcalls[c].sel = "none"))
  /\ UnknownSwitchRefused

\* C17, amended: init() of a newly constructed manager with a pool name that
\* is not configured does not fail for that reason: it uses the default pool
\* 'stockfish' and selects from it; switchToEngine with an unknown identifier
\* fails and leaves the selection unchanged.
C17_UnknownPoolFallsBack ==
  /\ [](poolConfig.pool \notin PoolNames =>
          \A c \in DOMAIN pcalls :
            (pcalls[c].op = "init" /\ c = 1) =>
              /\ pcalls[c].sel \in Elems(ENGINE_POOLS["stockfish"])
              /\ pcalls[c].err \in {"none", "init failed"}
              /\ pcalls[c].pc = "done" => currentEngineId # "null")
  /\ UnknownSwitchRefused

\* init() under an unknown pool name selected the default pool's engine, and
\* a later switchToEngine with an unknown identifier was refused.
C17_Witness ==
  /\ poolConfig.pool \notin PoolNames
  /\ currentEngineId = "stockfish-native-max"
  /\ pcalls # <<>> /\ pcalls[1].op = "init" /\ pcalls[1].pc = "done"
  /\ \E c \in DOMAIN pcalls : pcalls[c].op = "switchTo" /\ pcalls[c].err = "Unknown engine"

\* The units of the last analyzePosition call that succeeded, their number,
\* and how many of them report move m.
Successful == {l \in DualLabels : units[l] = "ok"}

Freq(m) == Cardinality({l \in Successful : unitMove[l] = m})

WinningFreq == CHOOSE w \in 0..Cardinality(DualLabels) :
                 /\ \A m \in DualMoves : Freq(m) <= w
                 /\ \E m \in DualMoves : Freq(m) = w \/ w = 0

\* The first label, in configured order, whose unit succeeded with a move of
\* maximal frequency.
FirstWinnerAt ==
  CHOOSE i \in DOMAIN dualConfig :
    /\ dualConfig[i] \in Successful /\ Freq(unitMove[dualConfig[i]]) = WinningFreq
    /\ \A j \in 1..(i - 1) :
         ~(dualConfig[j] \in Successful /\ Freq(unitMove[dualConfig[j]]) = WinningFreq)

\* C18: the consensus is a best move of maximal frequency among the successful
\* results, and among tied moves the one first seen in configured label order,
\* whatever the order in which the engines finished.
C18_ConsensusByLabelOrder ==
  (dualPc = "returned" /\ Successful # {})
    => /\ Freq(consolidated.consensus) = WinningFreq
       /\ consolidated.consensus = unitMove[dualConfig[FirstWinnerAt]]

\* a/b = c/d for fractions with non-zero denominators.
SameFraction(x, n, d) == x.den # 0 /\ d # 0 /\ x.num * d = n * x.den

DistinctMoves == Cardinality({m \in DualMoves : Freq(m) > 0})

\* C19: with s >= 1 successful results, d distinct best moves and winning
\* frequency w, consensusStrength is w / s and divergence is (d - 1) / s; three
\* engines reporting e2e4, e2e4, d2d4 give e2e4, 2/3 and 1/3.
C19_StrengthAndDivergence ==
  (dualPc = "returned" /\ Successful # {}) =>
    LET s == Cardinality(Successful) IN
    /\ SameFraction(consolidated.consensusStrength, WinningFreq, s)
    /\ SameFraction(consolidated.divergence, DistinctMoves - 1, s)
    /\ (s = 3 /\ Freq("e2e4") = 2 /\ Freq("d2d4") = 1) =>
         /\ consolidated.consensus = "e2e4"
         /\ consolidated.consensusStrength = [num |-> 2, den |-> 3]
         /\ consolidated.divergence = [num |-> 1, den |-> 3]

\* Three engines reported e2e4, e2e4 and d2d4 and the call returned.
C19_Witness ==
  /\ dualPc = "returned"
  /\ Cardinality(Successful) = 3
  /\ Freq("e2e4") = 2 /\ Freq("d2d4") = 1
  /\ consolidated.consensus = "e2e4"

\* The units of the running or last analyzePosition call have all settled and
\* none succeeded.
AllUnitsFailed ==
  /\ \E l \in DualLabels : units[l] = "failed"
  /\ \A l \in DualLabels : units[l] \in {"none", "failed"}

\* C20: when no engine unit succeeds, analyzePosition returns a no-consensus
\* result whose strength and divergence are defined values, not the outcome of
\* a division by zero.
C20_NoConsensusIsDefined ==
  AllUnitsFailed =>
    /\ dualPc = "returned"
    /\ consolidated.consensus = "null"
    /\ consolidated.consensusStrength # NotANumber
    /\ consolidated.divergence # NotANumber

PendingUnit(st) == st \in {"analysis", "candidates"}

\* C21: a failing unit leaves the other units and the stored results as they
\* are; the consolidated result is produced only once every unit has settled,
\* and its engines map holds exactly the labels whose units succeeded in this
\* call.
C21_UnitFailureIsLocal ==
  /\ [][\A l \in DualLabels :
          (PendingUnit(units[l]) /\ units'[l] = "failed")
            => /\ \A k \in DualLabels \ {l} :
                    units'[k] = units[k] /\ unitMove'[k] = unitMove[k]
               /\ results' = results]_vars
  /\ [][consolidated' # consolidated
          => \A l \in DualLabels : ~PendingUnit(units'[l])]_vars
  /\ [](dualPc = "returned" =>
          /\ \A l \in DualLabels : ~PendingUnit(units[l])
          /\ consolidated.engines = Successful)

\* A call returned after one unit failed and another succeeded later.
C21_Witness ==
  /\ dualPc = "returned"
  /\ \E l \in DualLabels : units[l] = "failed"
  /\ \E l \in DualLabels : units[l] = "ok"
  /\ consolidated.engines = Successful
  /\ results # <<>>

\* C22: a quit() call on a live adapter sends quit, releases the process and
\* clears isReady; a call when the adapter was already quit sends nothing,
\* raises no error and changes nothing.  EngineManager.quit behaves the same
\* and drops its adapter.
C22_QuitIdempotent ==
  [][Len(quitCalls') = Len(quitCalls) + 1 =>
       LET q == quitCalls'[Len(quitCalls')]
           live == process /\ (q.by = "manager" => currentEngine)
       IN /\ ~q.threw
          /\ IF live
               THEN /\ sent' = Append(sent, Cmd("quit", 0))
                    /\ ~process' /\ ~isReady'
               ELSE /\ sent' = sent /\ process' = process /\ isReady' = isReady
                    /\ UNCHANGED <<initPc, waiting, hsTimers, chan, engQ, engOwes>>
          /\ (quitCalls # <<>> /\ quitCalls[Len(quitCalls)].acted /\ ~process)
               => (sent' = sent /\ ~q.acted)
          /\ q.by = "manager" => ~currentEngine']_vars

\* quit() was called twice on a ready adapter: the first call acted, the
\* second did not, and exactly one quit command was written.
C22_Witness ==
  /\ Len(quitCalls) = 2
  /\ quitCalls[1].acted /\ ~quitCalls[2].acted
  /\ initPc = "done" /\ ~process /\ ~isReady
  /\ Cardinality({i \in DOMAIN sent : sent[i] = Cmd("quit", 0)}) = 1

\* The same through EngineManager.quit.
C22_WitnessManager ==
  /\ Len(quitCalls) = 2
  /\ quitCalls[1].by = "manager" /\ quitCalls[1].acted
  /\ quitCalls[2].by = "manager" /\ ~quitCalls[2].acted
  /\ initPc = "done" /\ ~currentEngine

\* The timer of acknowledgment a fires in this step (no message is delivered).
TimerFires(a) == a \in hsTimers /\ hsTimers' = hsTimers \ {a} /\ chan' = chan

\* C23: when the timer of the acknowledgment that init is waiting for fires
\* before the acknowledgment was observed, init fails, isReady is false and
\* stays false for that adapter (until the manager is initialized anew), the
\* manager's init fails with it and the manager is not ready.
C23_HandshakeTimeoutFailsInit ==
  /\ [][\A a \in Acks : (TimerFires(a) /\ initPc = a) =>
          /\ initPc' = "failed"
          /\ ~isReady'
          /\ mgrPhase = "initializing" => (mgrPhase' = "failed" /\ ManagerNotReady')]_vars
  /\ [][(initPc = "failed" /\ nInits' = nInits) =>
          (initPc' = "failed" /\ ~isReady')]_vars
  /\ [](initPc = "failed" => (~isReady /\ ManagerNotReady))
  /\ [](mgrPhase = "failed" => ManagerNotReady)

\* The manager's init failed by a handshake timeout: nothing was quit, the
\* process is still there, yet the adapter gave up waiting.
C23_Witness ==
  /\ mgrPhase = "failed" /\ initPc = "failed"
  /\ quitCalls = <<>> /\ process /\ currentEngine
  /\ ~isReady

\* ^[a-h][1-8][a-h][1-8][qrbn]?$
Files == {"a", "b", "c", "d", "e", "f", "g", "h"}
Ranks == {"1", "2", "3", "4", "5", "6", "7", "8"}
Promotions == {"q", "r", "b", "n"}

WellFormedUci(m) ==
  /\ m \in DOMAIN Spell
  /\ LET s == Spell[m]
     IN /\ Len(s) \in {4, 5}
        /\ s[1] \in Files /\ s[2] \in Ranks /\ s[3] \in Files /\ s[4] \in Ranks
        /\ Len(s) = 5 => s[5] \in Promotions

\* C24: every analysis that EngineManager.analyzePosition returned carries a
\* bestMove of the form origin square, destination square, optional
\* promotion piece.
C24_BestMoveWellFormed ==
  \A i \in DOMAIN succLog : WellFormedUci(succLog[i].bestMove)

\* The calls that are inside initializeEngine(id): each has created an
\* EngineManager for id and awaits its init().
Initializing(id) == {c \in DOMAIN pcalls : pcalls[c].pc = "initEngine" /\ pcalls[c].sel = id}

\* C25: a cached identifier is never being initialized, and at no time are
\* two adapters being created and initialized for the same identifier, also
\* when selection steps overlap.
C25_InitSerializedPerId ==
  \A id \in EngineIds :
    /\ id \in engines => Initializing(id) = {}
    /\ Cardinality(Initializing(id)) <= 1

\* The timer armed by search s fires in this step.
SearchTimerFires(s) == s \in timers /\ timers' = timers \ {s}

StopWritten == \E i \in DOMAIN sent' : i > Len(sent) /\ sent'[i] = Cmd("stop", 0)

\* C26: when the timer of a search fires while that search is pending, the
\* search is rejected and, the engine being there, stop is written to it.
C26_TimeoutRejectsAndStops ==
  [][\A s \in SearchIds : (SearchTimerFires(s) /\ promise[s].st = "pending") =>
        /\ promise'[s].st = "rejected"
        /\ process => StopWritten]_vars

\* The same for the two process adapters only.
C26_ProcessAdaptersStop ==
  [][\A s \in SearchIds :
        (kind # "wasm" /\ SearchTimerFires(s) /\ currentSearch = s
           /\ promise[s].st = "pending") =>
        /\ promise'[s].st = "rejected"
        /\ process => StopWritten]_vars

\* C27: the timer of search s acts on search s only: when it fires after s
\* has settled, no other search is rejected, nothing is written to the engine
\* and the pending-search slot keeps its value.
C27_TimerActsOnOwnSearchOnly ==
  [][\A s \in SearchIds : SearchTimerFires(s) =>
        /\ \A t \in SearchIds \ {s} : promise'[t] = promise[t]
        /\ promise[s].st # "pending" =>
             (currentSearch' = currentSearch /\ sent' = sent)]_vars

\* Call s of getCandidateMoves finishes in this step (returns or throws).
CandidatesFinish(s) ==
  /\ call[s].op \in {"getCandidateMoves", "mgrCandidates"}
  /\ call[s].st = "pending" /\ call'[s].st # "pending"

\* C28: when getCandidateMoves finishes on a live engine, by success or by
\* timeout, MultiPV is back at the configured value and no collecting
\* wrapper is installed any more.
C28_CandidatesRestoreOnExit ==
  [][\A s \in SearchIds : (CandidatesFinish(s) /\ process' /\ ~MaiaSinglePv) =>
        /\ engMultiPV' = OriginalMultiPV
        /\ wrapped' = {}]_vars

\* On success the restore does happen.
C28_RestoredOnSuccess ==
  [][\A s \in SearchIds :
        (CandidatesFinish(s) /\ call'[s].st = "ok" /\ ~MaiaSinglePv) =>
        /\ engMultiPV' = OriginalMultiPV
        /\ s \notin wrapped']_vars

Written(c) == \E i \in DOMAIN sent : sent[i].c = c

\* The line handled in this step is acknowledgment a.
Observes(a) == chan # <<>> /\ Head(chan).t = a /\ chan' = Tail(chan)

\* C29: init() passes its first wait only by observing uciok after uci was
\* written, and writes the configured options and isready then; isReady is
\* set only by observing readyok at the second wait; so isReady is never true
\* unless both acknowledgments were observed in that order.
C29_ReadyOnlyAfterHandshake ==
  /\ [][(initPc # "readyok" /\ initPc' = "readyok") =>
          /\ initPc = "uciok" /\ Observes("uciok") /\ Written("uci")
          /\ sent' = (IF ConfigMultiPV > 0
                        THEN Append(sent, Cmd("setoption", ConfigMultiPV))
                        ELSE sent) \o <<Cmd("isready", 0)>>
          /\ ~isReady']_vars
  /\ [][(~isReady /\ isReady') =>
          /\ initPc = "readyok" /\ Observes("readyok") /\ Written("isready")
          /\ initPc' = "done"]_vars
  /\ [](isReady => initPc = "done")
  /\ [](initPc \in {"readyok", "done"} =>
          \E i, j \in DOMAIN sent : i < j /\ sent[i].c = "uci" /\ sent[j].c = "isready")

\* The adapter became ready through the handshake, and a further uciok line
\* that nobody waits for is about to be handled.
C29_Witness ==
  /\ isReady /\ initPc = "done"
  /\ chan # <<>> /\ Head(chan).t = "uciok"

\* The indices of the go commands in the command log.
Gos == {j \in DOMAIN sent : sent[j].c = "go"}

\* Position i is after the last go before j.
AfterPreviousGo(i, j) == i < j /\ \A g \in Gos : ~(i < g /\ g < j)

\* C30: every go written for EngineManager.analyzePosition(P) or
\* getCandidateMoves(P, k) comes after a position command for P written
\* since the previous go, no position command for another P lies between,
\* and for getCandidateMoves setoption MultiPV k lies between the two.
C30_PositionBeforeGo ==
  \A j \in Gos :
    LET c == call[sent[j].n] IN
    c.op \in {"analyzePosition", "mgrCandidates"} =>
      \E i \in DOMAIN sent :
        /\ AfterPreviousGo(i, j)
        /\ sent[i] = Cmd("position", c.fen)
        /\ \A k \in DOMAIN sent :
             (i < k /\ k < j) => sent[k].c # "position"
        /\ c.op = "mgrCandidates" =>
             \E k \in DOMAIN sent :
               i < k /\ k < j /\ sent[k] = Cmd("setoption", c.count)

\* Both operations were run, on different positions.
C30_Witness ==
  \E j1, j2 \in Gos :
    /\ j1 < j2
    /\ call[sent[j1].n].op = "mgrCandidates"
    /\ call[sent[j2].n].op = "analyzePosition"
    /\ call[sent[j1].n].fen # call[sent[j2].n].fen
    /\ \E k \in DOMAIN sent : j1 < k /\ k < j2 /\ sent[k].c = "stop"

Units == {"movetime", "nodes", "depth"}

Supplied == {u \in {"time", "nodes", "depth"} : goOpts[u] # 0}

\* C31 as stated: one unit per go, and with several of time, nodes, depth
\* supplied the unit is that of time before nodes before depth, on every
\* adapter and in every mode.
C31_SamePrecedenceEverywhere ==
  goCmd # NoGo =>
    /\ goCmd.unit \in Units
    /\ Cardinality(Supplied) >= 2 =>
         goCmd.unit = (IF "time" \in Supplied THEN "movetime" ELSE "nodes")

\* C31 as the code has it: one unit per go; Lc0Engine in Maia mode always
\* searches by nodes; Lc0Engine otherwise takes time before nodes before
\* depth; StockfishAsmEngine and StockfishEngine take time before depth and
\* never nodes.
C31_OneUnitPrecedencePerAdapter ==
  goCmd # NoGo =>
    /\ goCmd.unit \in Units
    /\ goCmd.unit =
         (IF kind = "lc0" /\ isMaia THEN "nodes"
          ELSE IF "time" \in Supplied THEN "movetime"
          ELSE IF kind = "lc0" /\ "nodes" \in Supplied THEN "nodes"
          ELSE "depth")
    /\ goCmd.unit \in {"movetime", "nodes"} /\ ~(kind = "lc0" /\ isMaia) =>
         goCmd.value = goOpts[IF goCmd.unit = "movetime" THEN "time" ELSE "nodes"]

\* A request with time and nodes went to Lc0Engine in Maia mode and was
\* searched by nodes.
C31_Witness ==
  /\ kind = "lc0" /\ isMaia
  /\ goOpts.time # 0 /\ goOpts.nodes # 0
  /\ goCmd = [unit |-> "nodes", value |-> goOpts.nodes]

\* C32: the lines passed to handleEngineMessage are the non-empty lines the
\* engine wrote, in order: always a prefix of them, and all of them once
\* the pipe has been read to the end.
C32_HandledLinesAreWrittenLines ==
  /\ Len(handled) <= Len(written)
  /\ \A i \in DOMAIN handled : handled[i] = written[i]
  /\ stream = <<>> => handled = written

\* When every chunk ends at a newline the lines do arrive whole.
C32_WholeLineChunks ==
  [][(stream' # stream /\ handled' # handled /\ stream[Len(stream) - Len(stream')] = "nl"
        /\ C32_HandledLinesAreWrittenLines)
       => C32_HandledLinesAreWrittenLines']_vars

\* C33: a failed launch of the engine process never ends the host program
\* through an uncaught exception; it shows as a failed init.
C33_LaunchFailureIsCaught ==
  /\ ~hostExited
  /\ (kind \in {"asm", "lc0"} /\ initPc \in {"uciok", "failed"} /\ engOwes = <<>>
        /\ chan = <<>> /\ process /\ hsTimers = {})
       => initPc = "failed"

\* C34: within a search, once the evaluation holds a score (a pv), handling
\* a further info line never leaves it without one.
C34_EvaluationAccumulates ==
  [][(evaluation.set /\ evaluation'.set) =>
       /\ evaluation.stype # "none" => evaluation'.stype # "none"
       /\ evaluation.pv # "none" => evaluation'.pv # "none"]_vars

\* Lines that carry a score and a pv for variation 1 do replace the
\* evaluation by their own values.
C34_ScoredLineIsTaken ==
  [][(evaluation' # evaluation /\ evaluation'.stype # "none") =>
       evaluation'.score = ParseScore(kind, evaluation'.stype,
                                      IF evaluation'.stype = "mate" THEN evaluation'.mate
                                      ELSE evaluation'.score)]_vars

\* C35: an EngineManager created for the type of a configured identifier
\* gets an adapter: its init fails only if the handshake fails.
C35_ConfiguredTypesDispatch ==
  (engineType \in ConfiguredTypes /\ nInits > 0) =>
     /\ AdapterFor(engineType) # "none"
     /\ mgrPhase = "failed" => initPc = "failed"


FailedCall(c) == c.out \in {"threw", "notExecuted"}

LastMakeMove == mmCalls[Len(mmCalls)]

\* C36: after makeMove failed for a position, the auto-play loop keeps running
\* with isPlaying true; the next makeMove call is never for the same position
\* again; a pass that sees a different position on our turn calls makeMove for
\* it; and only stopAutoPlay clears isPlaying and lets the loop return.
C36_FailedMoveNotRetried ==
  /\ [][(Len(mmCalls') > Len(mmCalls) /\ FailedCall(LastMakeMove'))
          => (isPlaying' /\ loops' = loops /\ gsFen' = LastMakeMove'.fen)]_vars
  /\ [][(mmCalls # <<>> /\ FailedCall(LastMakeMove) /\ Len(mmCalls') > Len(mmCalls))
          => LastMakeMove'.fen # LastMakeMove.fen]_vars
  /\ [][(/\ mmCalls # <<>> /\ FailedCall(LastMakeMove)
         /\ LoopPass
         /\ lastIter' \notin {"turnThrew", "notOurTurn", "fenThrew"}
         /\ board # LastMakeMove.fen)
          => (Len(mmCalls') = Len(mmCalls) + 1 /\ LastMakeMove'.fen = board)]_vars
  /\ [][loops' < loops => ~isPlaying]_vars
  /\ [][(isPlaying /\ ~isPlaying') => UNCHANGED <<loops, gsFen, mmCalls, lastIter>>]_vars

\* A failed makeMove is followed by a makeMove for another position, still playing.
C36_Witness ==
  /\ isPlaying
  /\ \E i \in 1..(Len(mmCalls) - 1) :
       FailedCall(mmCalls[i]) /\ mmCalls[i + 1].fen # mmCalls[i].fen

\* A pass on our turn that found the failed position unchanged and made no call.
C36_WitnessSamePosition ==
  /\ isPlaying /\ ourTurn
  /\ mmCalls # <<>> /\ FailedCall(LastMakeMove)
  /\ board = LastMakeMove.fen
  /\ lastIter = "same"


\* C37: currentEngineId is non-null exactly when currentEngine is the manager
\* cached under that identifier; no selection, also of a disabled identifier,
\* leaves an identifier selected with no adapter behind it.
C37_SelectedHasAdapter ==
  (currentEngineId # "null") <=>
     (poolCurrent = currentEngineId /\ currentEngineId \in engines)

\* With every identifier enabled the selection always has its adapter.
C37_HoldsWhenAllEnabled == (disabled = {}) => C37_SelectedHasAdapter


\* C38: whenever poolEngines is non-empty, poolIndex is one of its indices,
\* also after identifiers were removed for a failed initialization; so every
\* selection over a non-empty pool list returns a member of that list.
C38_PoolIndexStaysValid ==
  /\ poolEngines # <<>> => poolIndex \in 0..(Len(poolEngines) - 1)
  /\ \A k \in DOMAIN selLog :
       selLog[k].pool # <<>> => selLog[k].id \in Elems(selLog[k].pool)


\* The least index whose cumulative weight exceeds the sample r2 / 2.
LeastExceeding(weights, r2) ==
  CHOOSE i \in DOMAIN weights :
    /\ 2 * SumTo(weights, i) > r2
    /\ \A j \in 1..(i - 1) : 2 * SumTo(weights, j) <= r2

\* C39: with one non-negative integer weight per pool member and a positive
\* total, selectWeightedEngine returns for every sample 0 <= r < total the
\* identifier at the least index whose cumulative weight exceeds r, and never
\* one whose weight is 0.
C39_WeightedPicksLeastExceeding ==
  (draw.idx > 0 /\ Len(draw.weights) = Len(draw.pool)) =>
     /\ draw.idx = LeastExceeding(draw.weights, draw.r2)
     /\ draw.weights[draw.idx] # 0

\* Between the whole numbers the sample decides as the claim says.
C39_HoldsOffTheBoundaries ==
  (draw.idx > 0 /\ Len(draw.weights) = Len(draw.pool) /\ draw.r2 % 2 = 1) =>
     /\ draw.idx = LeastExceeding(draw.weights, draw.r2)
     /\ draw.weights[draw.idx] # 0


\* C40: no handshake acknowledgment is lost: an acknowledgment that reached
\* the adapter after its command was sent, also one printed before the wait
\* was registered, is observed by that wait, so init never times out on it.
C40_NoAckLost ==
  [][\A a \in Acks : (TimerFires(a) /\ initPc = a) => a \notin early]_vars

\* An acknowledgment that arrives once the wait is registered ends that wait.
C40_LaterAckObserved ==
  [][\A a \in Acks :
       (/\ chan # <<>> /\ Head(chan).t = a /\ chan' = Tail(chan)
        /\ a \in waiting /\ initPc = a /\ process)
         => (initPc' # a /\ initPc' # "failed" /\ a \notin hsTimers')]_vars

====
